---- MODULE Spec2Model ----
(***************************************************************************)
(* Linear Semantic Agent: the decision pipeline of LinearSemanticAgent     *)
(* (agent.py), its two-tier project cache and embedding cache              *)
(* (firestore_client.py, vertex_ai.py) and the ReasoningEngine             *)
(* (tools/reasoning.py) with its text and vector helpers.                  *)
(*                                                                         *)
(* Texts are TLA+ strings.  Scores are the floats of the program, with     *)
(* the rounding of each operation.  Time is in whole seconds.              *)
(***************************************************************************)
EXTENDS Integers, Sequences, FiniteSets, TLC

\* ------------------------------------------------------------------------
\* Generic helpers
\* ------------------------------------------------------------------------

\* The Python value None, where a string or a record is expected.
None == "None"

\* None where a list object or a coroutine is expected (these are numbered from 1).
NoRef == 0

\* None where a datetime is expected.
NoTime == -1

\* None where a vector is expected: a function that is no sequence, so that it
\* differs from every vector, the empty vector <<>> included.
NoVector == [i \in {0} |-> 0]

Min(a, b) == IF a <= b THEN a ELSE b

\* ---- naturals of any size, for the mantissas of floats ----
\* A natural number is the sequence of its digits in base BASE, the least
\* significant first, without leading zero digits; zero is <<>>.
BASE == 2^14

\* The i-th digit of a.
Limb(a, i) == IF i <= Len(a) THEN a[i] ELSE 0

\* a without its leading zero digits.
Trim(a) ==
    CHOOSE trimmed \in
        {SubSeq(s, 1, CHOOSE n \in 0..Len(s) :
                         /\ (n = 0 \/ s[n] # 0)
                         /\ \A j \in (n + 1)..Len(s) : s[j] = 0) : s \in {a}} : TRUE

\* The natural number n < 2^31.
BigOf(n) ==
    CHOOSE digits \in
        {Trim(<<k % BASE, (k \div BASE) % BASE, k \div (BASE * BASE)>>) : k \in {n}} : TRUE

\* a < b
BigLess(a, b) ==
    \E x \in {a}, y \in {b} :
        IF Len(x) # Len(y) THEN Len(x) < Len(y)
        ELSE \E i \in 1..Len(x) :
                /\ x[i] < y[i]
                /\ \A j \in (i + 1)..Len(x) : x[j] = y[j]

RECURSIVE MulAddFrom(_, _, _, _)
\* The digits of a * m + carry from the i-th digit of a on.
MulAddFrom(a, m, i, carry) ==
    IF i > Len(a)
    THEN (IF carry = 0 THEN <<>>
          ELSE IF carry < BASE THEN <<carry>>
          ELSE <<carry % BASE, carry \div BASE>>)
    ELSE CHOOSE digits \in
            {<<s % BASE>> \o MulAddFrom(a, m, i + 1, s \div BASE) :
                s \in {a[i] * m + carry}} : TRUE

\* a * m + c for m <= 2^16 and c < BASE.
MulAdd(a, m, c) ==
    CHOOSE product \in {Trim(MulAddFrom(x, m, 1, c)) : x \in {a}} : TRUE

RECURSIVE AddFrom(_, _, _, _)
\* The digits of a + b + carry from the i-th digits on.
AddFrom(a, b, i, carry) ==
    IF i > Len(a) /\ i > Len(b) THEN (IF carry = 0 THEN <<>> ELSE <<carry>>)
    ELSE CHOOSE digits \in
            {<<s % BASE>> \o AddFrom(a, b, i + 1, s \div BASE) :
                s \in {Limb(a, i) + Limb(b, i) + carry}} : TRUE

\* a + b
BigAdd(a, b) ==
    CHOOSE sum \in {AddFrom(x, y, 1, 0) : x \in {a}, y \in {b}} : TRUE

RECURSIVE SubFrom(_, _, _, _)
\* The digits of a - b - borrow from the i-th digits on.
SubFrom(a, b, i, borrow) ==
    IF i > Len(a) THEN <<>>
    ELSE CHOOSE digits \in
            {<<(s + BASE) % BASE>> \o SubFrom(a, b, i + 1, IF s < 0 THEN 1 ELSE 0) :
                s \in {a[i] - Limb(b, i) - borrow}} : TRUE

\* a - b for b <= a.
BigSub(a, b) ==
    CHOOSE difference \in {Trim(SubFrom(x, y, 1, 0)) : x \in {a}, y \in {b}} : TRUE

RECURSIVE Column(_, _, _, _)
\* The sum of the products a[j] * b[k + 1 - j] for j from i on.
Column(a, b, k, i) ==
    IF i > Len(a) THEN 0
    ELSE (IF k + 1 - i >= 1 /\ k + 1 - i <= Len(b) THEN a[i] * b[k + 1 - i] ELSE 0)
         + Column(a, b, k, i + 1)

RECURSIVE MulFrom(_, _, _, _)
\* The digits of a * b from the k-th on.
MulFrom(a, b, k, carry) ==
    IF k > Len(a) + Len(b) - 1 THEN BigOf(carry)
    ELSE CHOOSE digits \in
            {<<s % BASE>> \o MulFrom(a, b, k + 1, s \div BASE) :
                s \in {Column(a, b, k, 1) + carry}} : TRUE

\* a * b, one of them of at most 7 digits.
BigMul(a, b) ==
    CHOOSE product \in
        {IF x = <<>> \/ y = <<>> THEN <<>> ELSE Trim(MulFrom(x, y, 1, 0)) :
            x \in {a}, y \in {b}} : TRUE

\* a * 2^n.
BigShl(a, n) ==
    CHOOSE shifted \in
        {IF x = <<>> THEN <<>>
         ELSE [i \in 1..(k \div 14) |-> 0] \o MulAdd(x, 2^(k % 14), 0) :
            x \in {a}, k \in {n}} : TRUE

\* a \div 2^n.
BigShr(a, n) ==
    CHOOSE shifted \in
        {Trim([i \in 1..(Len(x) - (k \div 14)) |->
                  x[i + (k \div 14)] \div 2^(k % 14)
                  + (Limb(x, i + (k \div 14) + 1) % 2^(k % 14)) * 2^(14 - (k % 14))]) :
            x \in {a}, k \in {n}} : TRUE

\* a is a multiple of 2^n.
LowBitsZero(a, n) ==
    /\ \A i \in 1..(n \div 14) : Limb(a, i) = 0
    /\ Limb(a, (n \div 14) + 1) % 2^(n % 14) = 0

\* Bit n of a, bit 0 the least significant.
Bit(a, n) == (Limb(a, (n \div 14) + 1) \div 2^(n % 14)) % 2

\* The number of bits of a.
BitLen(a) ==
    IF a = <<>> THEN 0
    ELSE 14 * (Len(a) - 1)
         + (CHOOSE k \in 1..14 : a[Len(a)] < 2^k /\ a[Len(a)] >= 2^(k - 1))

\* The number of zero bits at the low end of a > 0.
TrailingZeros(a) ==
    CHOOSE n \in
        {14 * (s.z - 1)
         + (CHOOSE k \in 0..13 : s.x[s.z] % 2^(k + 1) # 0 /\ s.x[s.z] % 2^k = 0) :
            s \in {[x |-> x,
                    z |-> CHOOSE i \in 1..Len(x) :
                             x[i] # 0 /\ \A j \in 1..(i - 1) : x[j] = 0] : x \in {a}}} : TRUE

\* ---- Python floats ----
\* A float (IEEE 754 binary64) is the record [neg, man, exp] that stands for
\* (-1)^neg * man * 2^exp, with man an odd natural number below 2^53; zero has
\* man = <<>> and exp = 0.  Every operation rounds its exact result to the
\* nearest float, ties to even, as the hardware does.  Infinities, NaN and
\* subnormals do not occur on the scores and vectors of the model, and the
\* two zeros are one value: no operation of the program tells them apart.
Zero == [neg |-> FALSE, man |-> <<>>, exp |-> 0]

\* The float with magnitude m * 2^e for a natural number m < 2^54.
Canon(neg, m, e) ==
    CHOOSE x \in
        {IF s.m = <<>> THEN Zero
         ELSE [neg |-> s.neg, man |-> BigShr(s.m, s.t), exp |-> s.e + s.t] :
            s \in {[neg |-> neg, m |-> k, e |-> e,
                    t |-> IF k = <<>> THEN 0 ELSE TrailingZeros(k)] : k \in {m}}} : TRUE

\* Round to nearest, ties to even: the float nearest to m * 2^e, or to a
\* value above it by less than 2^e when sticky; with sticky, m has at least
\* 55 bits.
RoundToDouble(neg, m, e, sticky) ==
    CHOOSE rounded \in
        {IF s.cut <= 0 THEN Canon(neg, s.m, e)
         ELSE Canon(neg,
                    IF /\ Bit(s.m, s.cut - 1) = 1
                       /\ (sticky \/ ~LowBitsZero(s.m, s.cut - 1) \/ Bit(s.m, s.cut) = 1)
                    THEN MulAdd(BigShr(s.m, s.cut), 1, 1)
                    ELSE BigShr(s.m, s.cut),
                    e + s.cut) :
            s \in {[m |-> k, cut |-> BitLen(k) - 53] : k \in {m}}} : TRUE

\* float(n) for an int |n| < 2^31.
FloatOfInt(n) ==
    CHOOSE x \in {Canon(k < 0, BigOf(IF k < 0 THEN 0 - k ELSE k), 0) : k \in {n}} : TRUE

One == FloatOfInt(1)

\* -x
FloatNeg(x) ==
    CHOOSE y \in {IF a.man = <<>> THEN a ELSE [a EXCEPT !.neg = ~a.neg] : a \in {x}} : TRUE

\* |a| < |b| for floats.
MagLess(a, b) ==
    IF b.man = <<>> THEN FALSE
    ELSE IF a.man = <<>> THEN TRUE
    ELSE IF BitLen(a.man) + a.exp # BitLen(b.man) + b.exp
    THEN BitLen(a.man) + a.exp < BitLen(b.man) + b.exp
    ELSE IF a.exp <= b.exp THEN BigLess(a.man, BigShl(b.man, b.exp - a.exp))
    ELSE BigLess(BigShl(a.man, a.exp - b.exp), b.man)

\* x < y of two floats.
FloatLess(x, y) ==
    \E a \in {x}, b \in {y} :
        IF a.neg # b.neg THEN a.neg
        ELSE IF a.neg THEN MagLess(b, a) ELSE MagLess(a, b)

\* x + y of two floats.
FloatAdd(x, y) ==
    CHOOSE sum \in
        {IF a.man = <<>> THEN b
         ELSE IF b.man = <<>> THEN a
         ELSE CHOOSE rounded \in
                {IF a.neg = b.neg THEN RoundToDouble(a.neg, BigAdd(s.p, s.q), s.low, FALSE)
                 ELSE IF BigLess(s.p, s.q)
                 THEN RoundToDouble(b.neg, BigSub(s.q, s.p), s.low, FALSE)
                 ELSE RoundToDouble(a.neg, BigSub(s.p, s.q), s.low, FALSE) :
                    s \in {[low |-> low, p |-> BigShl(a.man, a.exp - low),
                            q |-> BigShl(b.man, b.exp - low)] :
                              low \in {IF a.exp < b.exp THEN a.exp ELSE b.exp}}} : TRUE :
            a \in {x}, b \in {y}} : TRUE

\* x - y of two floats.
FloatSub(x, y) == FloatAdd(x, FloatNeg(y))

\* x * y of two floats.
FloatMul(x, y) ==
    CHOOSE product \in
        {RoundToDouble(a.neg # b.neg, BigMul(a.man, b.man), a.exp + b.exp, FALSE) :
            a \in {x}, b \in {y}} : TRUE

RECURSIVE DivFrom(_, _, _, _, _)
\* Long division by d, whose leading digit is at least BASE / 2: the digits
\* of a from the i-th down are left to take, r < d is the remainder so far
\* and q the quotient so far.  The next digit is at most the quotient of the
\* two leading digits of the remainder by the leading digit of d, and at
\* least that less 2.
DivFrom(a, d, i, r, q) ==
    IF i = 0 THEN [quot |-> Trim(q), rest |-> r]
    ELSE CHOOSE qr \in
            {DivFrom(a, d, i - 1, BigSub(s.r, MulAdd(d, s.c, 0)), <<s.c>> \o q) :
                s \in {[r |-> t.r,
                        c |-> CHOOSE c \in (IF t.est >= 2 THEN t.est - 2 ELSE 0)..t.est :
                                 /\ ~BigLess(t.r, MulAdd(d, c, 0))
                                 /\ (c = t.est \/ BigLess(t.r, MulAdd(d, c + 1, 0)))] :
                          t \in {[r |-> u,
                                  est |-> IF (Limb(u, Len(d) + 1) * BASE + Limb(u, Len(d)))
                                             \div d[Len(d)] < BASE
                                          THEN (Limb(u, Len(d) + 1) * BASE + Limb(u, Len(d)))
                                               \div d[Len(d)]
                                          ELSE BASE - 1] :
                                    u \in {Trim(<<a[i]>> \o r)}}}} : TRUE

\* The quotient and the remainder of a by b > 0.
BigDivMod(a, b) ==
    CHOOSE qr \in
        {[quot |-> s.qr.quot, rest |-> BigShr(s.qr.rest, s.t)] :
            s \in {[t |-> t,
                    qr |-> DivFrom(BigShl(a, t), BigShl(b, t), Len(BigShl(a, t)),
                                   <<>>, <<>>)] :
                      t \in {14 * Len(b) - BitLen(b)}}} : TRUE

\* x / y of two floats, y not zero: the quotient of the mantissas, that of x
\* with digits added for a quotient of more than 56 bits.
FloatDiv(x, y) ==
    CHOOSE quotient \in
        {IF a.man = <<>> THEN Zero
         ELSE CHOOSE rounded \in
                {RoundToDouble(a.neg # b.neg, s.qr.quot, a.exp - b.exp - 14 * s.k,
                               s.qr.rest # <<>>) :
                    s \in {[k |-> k,
                            qr |-> BigDivMod([i \in 1..k |-> 0] \o a.man, b.man)] :
                              k \in {Len(b.man) + 5 - Len(a.man)}}} : TRUE :
            a \in {x}, b \in {y}} : TRUE

RECURSIVE SqrtFrom(_, _)
\* The integer square root of n by Newton's iteration from x >= sqrt(n).
SqrtFrom(n, x) ==
    CHOOSE root \in
        {IF BigLess(y, x) THEN SqrtFrom(n, y) ELSE x :
            y \in {BigShr(BigAdd(x, BigDivMod(n, x).quot), 1)}} : TRUE

\* math.sqrt(x) for a float x >= 0: the root of the mantissa, brought to 112
\* or 113 bits with an even exponent, is taken to 56 or 57 bits.
FloatSqrt(x) ==
    CHOOSE root \in
        {IF a.man = <<>> THEN Zero
         ELSE CHOOSE rounded \in
                {RoundToDouble(FALSE, s.root, (a.exp - s.k) \div 2,
                               BigMul(s.root, s.root) # s.n) :
                    s \in {[k |-> t.k, n |-> t.n, root |-> SqrtFrom(t.n, BigShl(<<1>>, 57))] :
                              t \in {[k |-> k, n |-> BigShl(a.man, k)] :
                                       k \in {(112 - BitLen(a.man))
                                              + ((a.exp - (112 - BitLen(a.man))) % 2)}}}} : TRUE :
            a \in {x}} : TRUE

\* The float nearest to n / d for ints n and d # 0, which is also the float
\* that the decimal literal with that value denotes.
FloatOfQuotient(n, d) == FloatDiv(FloatOfInt(n), FloatOfInt(d))

\* min(x, y) and max(x, y) of Python: the first argument unless the second
\* is smaller (larger).
FloatMin(x, y) ==
    CHOOSE least \in {IF FloatLess(b, a) THEN b ELSE a : a \in {x}, b \in {y}} : TRUE

FloatMax(x, y) ==
    CHOOSE greatest \in {IF FloatLess(a, b) THEN b ELSE a : a \in {x}, b \in {y}} : TRUE

\* The function f as the table of its values, each computed once.
Tabulated(f) == f @@ <<>>

\* x <= y of two floats.
FloatLeq(x, y) == ~FloatLess(y, x)

\* The float literals with two decimals: 0.15 is Hundredths[15].
Hundredths == [n \in 0..100 |-> FloatOfQuotient(n, 100)]

\* max(0.0, min(1.0, x))
Clamp01(x) == FloatMax(Zero, FloatMin(One, x))

Range(s) == {s[i] : i \in 1..Len(s)}

\* Python's `kw in text` on strings.
Contains(text, kw) ==
    \E t \in {text} :
        \E i \in 1..(Len(t) - Len(kw) + 1) : SubSeq(t, i, i + Len(kw) - 1) = kw

\* CountIn that stops at the first entry found.
CountIn_first(kws, text) ==
    IF \E i \in 1..Len(kws) : Contains(text, kws[i]) THEN 1 ELSE 0

\* Number of entries of the list kws that occur in text: sum(1 for kw in kws if kw in text).
CountIn(kws, text) ==
    Cardinality(UNION {{i \in 1..Len(kws) : Contains(t, kws[i])} : t \in {text}})

\* any(kw in text for kw in kws)
AnyIn(kws, text) == \E t \in {text} : \E i \in 1..Len(kws) : Contains(t, kws[i])

\* ------------------------------------------------------------------------
\* src/config/constants.py
\* ------------------------------------------------------------------------

SIMILARITY_THRESHOLD_MATCH == Hundredths[75]

CONFIDENCE_FILTER == Hundredths[40]

CLARITY_THRESHOLD == Hundredths[40]

DUPLICATE_THRESHOLD == Hundredths[75]

SCORE_WEIGHT_CONTEXT == Hundredths[40]

SCORE_WEIGHT_SIMILARITY == Hundredths[30]

SCORE_WEIGHT_CLARITY == Hundredths[20]

SCORE_WEIGHT_RED_FLAGS == Hundredths[10]

ALIGNMENT_SCORE_THRESHOLD == Hundredths[75]

\* settings.agent_version
agent_version == "1.0.0"

CACHE_TTL_PROJECTS == 3600

CACHE_TTL_EMBEDDINGS == 2592000

MIN_DESCRIPTION_LENGTH == 10

MAX_ATTEMPTS == 3

VERTEX_AI_BATCH_SIZE == 100

\* ------------------------------------------------------------------------
\* src/utils/text_processing.py
\* ------------------------------------------------------------------------

\* str.lower() on one character, for the characters a module string can
\* hold (code points up to U+00FF).
LowerChar(c) ==
    CASE c = "A" -> "a" [] c = "B" -> "b" [] c = "C" -> "c" [] c = "D" -> "d"
      [] c = "E" -> "e" [] c = "F" -> "f" [] c = "G" -> "g" [] c = "H" -> "h"
      [] c = "I" -> "i" [] c = "J" -> "j" [] c = "K" -> "k" [] c = "L" -> "l"
      [] c = "M" -> "m" [] c = "N" -> "n" [] c = "O" -> "o" [] c = "P" -> "p"
      [] c = "Q" -> "q" [] c = "R" -> "r" [] c = "S" -> "s" [] c = "T" -> "t"
      [] c = "U" -> "u" [] c = "V" -> "v" [] c = "W" -> "w" [] c = "X" -> "x"
      [] c = "Y" -> "y" [] c = "Z" -> "z"
      [] c = "À" -> "à" [] c = "Á" -> "á" [] c = "Â" -> "â" [] c = "Ã" -> "ã"
      [] c = "Ä" -> "ä" [] c = "Å" -> "å" [] c = "Æ" -> "æ" [] c = "Ç" -> "ç"
      [] c = "È" -> "è" [] c = "É" -> "é" [] c = "Ê" -> "ê" [] c = "Ë" -> "ë"
      [] c = "Ì" -> "ì" [] c = "Í" -> "í" [] c = "Î" -> "î" [] c = "Ï" -> "ï"
      [] c = "Ð" -> "ð" [] c = "Ñ" -> "ñ" [] c = "Ò" -> "ò" [] c = "Ó" -> "ó"
      [] c = "Ô" -> "ô" [] c = "Õ" -> "õ" [] c = "Ö" -> "ö" [] c = "Ø" -> "ø"
      [] c = "Ù" -> "ù" [] c = "Ú" -> "ú" [] c = "Û" -> "û" [] c = "Ü" -> "ü"
      [] c = "Ý" -> "ý" [] c = "Þ" -> "þ"
      [] OTHER -> c

RECURSIVE LowerRange(_, _, _)
\* str.lower() on the characters of s at positions a..b.
LowerRange(s, a, b) ==
    IF a > b THEN ""
    ELSE IF a = b THEN LowerChar(SubSeq(s, a, a))
    ELSE LowerRange(s, a, (a + b) \div 2) \o LowerRange(s, (a + b) \div 2 + 1, b)

\* str.lower()
Lower(s) == LowerRange(s, 1, Len(s))

\* The characters matched by the regex class \s, which are those of
\* str.isspace() and the ones str.strip() removes: tab, line feed, vertical
\* tab, form feed, carriage return, U+001C to U+001F, space, U+0085 and
\* U+00A0.  (The spaces above U+00FF cannot be written in a module string.)
IsSpace(c) ==
    c \in {" ", "\t", "\n", "\r", "\f", "", "", "", "", "",
           "", " "}

\* The characters matched by the regex class \w, up to U+00FF.
IsWordChar(c) ==
    c \in {"a","b","c","d","e","f","g","h","i","j","k","l","m","n","o","p","q",
           "r","s","t","u","v","w","x","y","z",
           "A","B","C","D","E","F","G","H","I","J","K","L","M","N","O","P","Q",
           "R","S","T","U","V","W","X","Y","Z",
           "0","1","2","3","4","5","6","7","8","9","_",
           "ª","²","³","µ","¹","º","¼","½","¾","À","Á","Â","Ã","Ä","Å","Æ","Ç",
           "È","É","Ê","Ë","Ì","Í","Î","Ï","Ð","Ñ","Ò","Ó","Ô","Õ","Ö","Ø","Ù",
           "Ú","Û","Ü","Ý","Þ","ß","à","á","â","ã","ä","å","æ","ç","è","é","ê",
           "ë","ì","í","î","ï","ð","ñ","ò","ó","ô","õ","ö","ø","ù","ú","û","ü",
           "ý","þ","ÿ"}

RECURSIVE LStrip(_)
LStrip(s) ==
    IF Len(s) > 0 /\ IsSpace(SubSeq(s, 1, 1)) THEN LStrip(SubSeq(s, 2, Len(s))) ELSE s

RECURSIVE RStrip(_)
RStrip(s) ==
    IF Len(s) > 0 /\ IsSpace(SubSeq(s, Len(s), Len(s)))
    THEN RStrip(SubSeq(s, 1, Len(s) - 1)) ELSE s

\* str.strip()
Strip(s) == RStrip(LStrip(s))

RECURSIVE CollapseRange(_, _, _)
\* re.sub(r'\s+', ' ', text) on the characters of s at positions a..b: the
\* first character of a run of whitespace becomes one space, the others of
\* the run are dropped.
CollapseRange(s, a, b) ==
    IF a > b THEN ""
    ELSE IF a = b
         THEN IF ~IsSpace(SubSeq(s, a, a)) THEN SubSeq(s, a, a)
              ELSE IF a > 1 /\ IsSpace(SubSeq(s, a - 1, a - 1)) THEN "" ELSE " "
    ELSE CollapseRange(s, a, (a + b) \div 2) \o CollapseRange(s, (a + b) \div 2 + 1, b)

\* re.sub(r'\s+', ' ', text): every maximal run of whitespace becomes one space.
CollapseSpaces(s) == CollapseRange(s, 1, Len(s))

\* normalize_text: lowercase, collapse whitespace, strip.
normalize_text(text) ==
    IF Len(text) = 0 THEN "" ELSE Strip(CollapseSpaces(Lower(text)))

RECURSIVE WordEnd(_, _)
\* Index of the last character of the run of word characters starting at i.
WordEnd(s, i) ==
    IF i < Len(s) /\ IsWordChar(SubSeq(s, i + 1, i + 1)) THEN WordEnd(s, i + 1) ELSE i

RECURSIVE FindWords(_, _)
\* re.findall(r'\b\w+\b', s) from position i on: the maximal runs of word characters.
FindWords(s, i) ==
    IF i > Len(s) THEN <<>>
    ELSE IF IsWordChar(SubSeq(s, i, i))
         THEN <<SubSeq(s, i, WordEnd(s, i))>> \o FindWords(s, WordEnd(s, i) + 1)
         ELSE FindWords(s, i + 1)

stop_words ==
    {"the", "is", "at", "which", "on", "a", "an", "and", "or", "but",
     "in", "with", "to", "for", "of", "as", "by", "this", "that",
     "from", "be", "are", "was", "were", "been", "have", "has", "had",
     "do", "does", "did", "will", "would", "could", "should"}

KEYWORD_MIN_LENGTH == 3

\* extract_keywords(text, min_length=3)
extract_keywords(text) ==
    IF Len(text) = 0 THEN <<>>
    ELSE SelectSeq(FindWords(normalize_text(text), 1),
                   LAMBDA w : Len(w) >= KEYWORD_MIN_LENGTH /\ w \notin stop_words)

\* is_empty_or_vague
is_empty_or_vague(text) ==
    \/ Len(text) = 0
    \/ Len(Strip(text)) < 10
    \/ LET n == normalize_text(text) IN
         \/ n \in {"thing", "stuff", "fix", "improve", "update",
                   "things", "stuffs", "fixs", "improves", "updates"}
         \/ n \in {"untitled", "tbd", "todo"}
         \/ n = ""

indicator_terms ==
    [technical |-> <<"api", "server", "database", "deployment", "integration", "sdk", "framework">>,
     business |-> <<"customer", "user", "revenue", "product", "feature", "requirement">>,
     development |-> <<"implement", "build", "create", "develop", "deploy", "setup", "configure">>,
     architecture |-> <<"system", "architecture", "design", "component", "service", "infrastructure">>]

\* extract_project_indicators without the break of line 171: one entry for
\* every term found.
extract_project_indicators_per_term(text) ==
    UNION {{<<cat, j>> : j \in {i \in 1..Len(indicator_terms[cat]) :
                                    Contains(Lower(text), indicator_terms[cat][i])}} :
           cat \in DOMAIN indicator_terms}

\* extract_project_indicators: the set of indicator categories with a term in the text.
extract_project_indicators(text) ==
    {cat \in DOMAIN indicator_terms : AnyIn(indicator_terms[cat], Lower(text))}

\* ------------------------------------------------------------------------
\* src/models/mapache_context.py
\* ------------------------------------------------------------------------

\* VALID_DOMAINS, in dictionary order, keywords as written in the source.
VALID_DOMAINS ==
    << <<"core_platform",
         <<"Agent Runtime", "Linear Integration", "GitHub Integration",
           "A2UI", "Composio", "A2A protocol", "Vertex AI">> >>,
       <<"saaS_integrations",
         <<"Slack MCP", "HubSpot MCP", "Stripe MCP", "Google Cloud MCP",
           "Linear MCP", "GitHub MCP", "MCP server">> >>,
       <<"intelligence_features",
         <<"Semantic Search", "Gap Detection", "Duplication Detection",
           "Insights", "Embeddings", "RAG", "System of Intelligence">> >>,
       <<"internal_ops",
         <<"Infrastructure", "Development Setup", "Async Coding",
           "Dependency Management", "GCP", "Deployment", "Docker", "Kubernetes">> >> >>

\* FILTER_OUT_RULES, in dictionary order.
FILTER_OUT_RULES ==
    << <<"personal_household",
         <<"shopping", "furniture", "renovation", "home maintenance",
           "curtain", "door", "awning", "landscaping", "household">> >>,
       <<"learning_experiments",
         <<"try out", "explore", "experiment", "learning", "study",
           "evaluate (for personal use)", "proof-of-concept (non-mapache)">> >>,
       <<"deprecated_platforms",
         <<"mapache.solutions", "renovate bot (completed)",
           "old n8n", "asana", "monday.com", "clickup (migrated)">> >>,
       <<"generic_vague",
         <<"untitled", "thing", "fix stuff", "[empty description]",
           "improve stuff", "tbd">> >>,
       <<"outside_scope",
         <<"general productivity", "meditation", "well-being",
           "digital detox", "phone addiction", "personal finance",
           "subscriptions (personal)">> >> >>

MAPACHE_KEYWORDS ==
    <<"agent", "mcp", "a2ui", "a2a", "integration", "composio", "vertex ai",
      "linear semantic", "github mcp", "system of intelligence", "sub-agent",
      "deployment", "gcp", "firestore", "embeddings", "rag", "conversational",
      "oauth", "saaS", "orchestration", "chief agent", "runtime", "gemini",
      "semantic", "duplicate detection", "gap detection", "slack", "hubspot">>

FILTER_OUT_KEYWORDS ==
    <<"personal", "learning", "experiment (non-mapache)", "try",
      "shopping", "household", "meditation", "well-being", "todo (non-work)",
      "n8n (old)", "asana", "monday.com", "jira (not planned)",
      "furniture", "renovation", "home", "family", "hobby">>

RED_FLAGS ==
    <<"is this valid?", "[empty description]", "figure out", "not sure", "maybe",
      "digital well-being", "personal task", "home improvement", "shopping list">>

\* [kw.lower() for kw in kws]
LowerAll(kws) == [i \in 1..Len(kws) |-> Lower(kws[i])]

RECURSIVE FirstCategory(_, _, _)
\* The first entry of the rule table, from index i on, one of whose keywords
\* (lowercased) occurs in the text; None when there is none.
FirstCategory(rules, text, i) ==
    IF i > Len(rules) THEN None
    ELSE IF AnyIn(LowerAll(rules[i][2]), text) THEN rules[i][1]
    ELSE FirstCategory(rules, text, i + 1)

\* MapacheContext.get_domain
get_domain(task_description) == FirstCategory(VALID_DOMAINS, Lower(task_description), 1)

\* MapacheContext.get_filter_category
get_filter_category(task_description) ==
    FirstCategory(FILTER_OUT_RULES, Lower(task_description), 1)

tech_tags ==
    [mcp |-> <<"mcp", "model context protocol">>,
     agent |-> <<"agent", "sub-agent">>,
     a2ui |-> <<"a2ui", "user interface">>,
     integration |-> <<"integration", "oauth">>,
     embeddings |-> <<"embeddings", "semantic", "rag">>,
     deployment |-> <<"deployment", "docker", "kubernetes">>,
     gcp |-> <<"gcp", "google cloud", "vertex ai">>]

\* MapacheContext.get_tags: list(set(tags)), as a set.
get_tags(task_description) ==
    LET description_lower == Lower(task_description)
        domain == get_domain(description_lower)
    IN  (IF domain # None THEN {domain} ELSE {})
        \cup {tag \in DOMAIN tech_tags : AnyIn(tech_tags[tag], description_lower)}

\* ------------------------------------------------------------------------
\* src/utils/similarity.py
\* ------------------------------------------------------------------------

\* The literal 1e-10: the float nearest to 1 / 10^10, and 10^10 is a float.
EPSILON == FloatDiv(One, FloatMul(FloatOfInt(100000), FloatOfInt(100000)))

\* The units in which the components of a vector of the model are counted: a
\* vector is a sequence of integers, <<3, 4>> standing for
\* numpy.array([3.0, 4.0]) in the unit "one" and for
\* numpy.array([3e-10, 4e-10]) in the unit "epsilon", the size of the 1e-10
\* that lines 32-33 add to the norms.
VectorUnits == {"one", "epsilon"}

\* The numpy array of floats that a vector of the model stands for.
ArrayOf(unit, vec) ==
    [i \in 1..Len(vec) |->
        IF unit = "one" THEN FloatOfInt(vec[i])
        ELSE FloatDiv(FloatOfInt(vec[i]), FloatMul(FloatOfInt(100000), FloatOfInt(100000)))]

RECURSIVE DotFrom(_, _, _, _)
\* numpy.dot from index i on: each product is rounded and added to the sum so far.
DotFrom(array1, array2, i, acc) ==
    IF i > Len(array1) THEN acc
    ELSE DotFrom(array1, array2, i + 1, FloatAdd(acc, FloatMul(array1[i], array2[i])))

\* numpy.dot of two arrays of the same length.
Dot(array1, array2) == DotFrom(array1, array2, 1, Zero)

\* numpy.linalg.norm: the square root of the dot product of the array with itself.
Norm(array) == FloatSqrt(Dot(array, array))

\* Lines 32-33: vec / (np.linalg.norm(vec) + 1e-10).
Normalized(array) ==
    CHOOSE unit_vector \in
        {[i \in 1..Len(array) |-> FloatDiv(array[i], s)] :
            s \in {FloatAdd(Norm(array), EPSILON)}} : TRUE

\* numpy.clip(x, 0.0, 1.0)
Clip(x) == FloatMin(FloatMax(x, Zero), One)

\* The vectors that occur in the behaviours.
TabulatedVectors ==
    {<<0, 0>>, <<1, 0>>, <<0, 1>>, <<3, 4>>, <<4, 3>>, <<8, 6>>, <<0 - 3, 4>>,
     <<0 - 1, 0>>, <<5, 12>>, <<2, 3>>, <<25, 24>>}

\* Normalized of the vectors that occur in the behaviours, evaluated once.
NormalizedTable ==
    Tabulated([key \in VectorUnits \X TabulatedVectors |->
                  Normalized(ArrayOf(key[1], key[2]))])

\* Normalized(ArrayOf(unit, vec)), looked up where tabulated.
Normalize(unit, vec) ==
    IF <<unit, vec>> \in DOMAIN NormalizedTable THEN NormalizedTable[<<unit, vec>>]
    ELSE Normalized(ArrayOf(unit, vec))

\* Lines 32-39 on two vectors of the same length, at least 1: the clipped dot
\* product of the normalized arrays.
ClippedDot(unit, vec1, vec2) == Clip(Dot(Normalize(unit, vec1), Normalize(unit, vec2)))

\* ClippedDot of the vectors that occur in the behaviours, evaluated once.
SimilarityTable ==
    Tabulated([key \in VectorUnits \X TabulatedVectors \X TabulatedVectors |->
                  ClippedDot(key[1], key[2], key[3])])

\* ClippedDot(unit, vec1, vec2), looked up where tabulated.
Similarity(unit, vec1, vec2) ==
    IF <<unit, vec1, vec2>> \in DOMAIN SimilarityTable
    THEN SimilarityTable[<<unit, vec1, vec2>>]
    ELSE ClippedDot(unit, vec1, vec2)

\* The value that stands for the ValueError numpy.dot raises on vectors of
\* different lengths: a record that is no float, since no float has an
\* exponent with the mantissa zero.
ValueError == [neg |-> FALSE, man |-> <<>>, exp |-> 1]

\* numpy.dot is reached with vectors of different lengths.
ShapeMismatch(vec1, vec2) ==
    /\ vec1 # NoVector /\ vec2 # NoVector
    /\ Len(vec1) > 0 /\ Len(vec2) > 0
    /\ Len(vec1) # Len(vec2)

\* cosine_similarity on the arrays that vec1 and vec2 stand for in a unit.
cosine_similarity_in(unit, vec1, vec2) ==
    IF vec1 = NoVector \/ vec2 = NoVector THEN Zero
    ELSE IF Len(vec1) = 0 \/ Len(vec2) = 0 THEN Zero
    ELSE IF ShapeMismatch(vec1, vec2) THEN ValueError
    ELSE Similarity(unit, vec1, vec2)

\* cosine_similarity, on vectors of whole components.
cosine_similarity(vec1, vec2) == cosine_similarity_in("one", vec1, vec2)

RECURSIVE SortByScoreDesc(_)
\* list.sort(key=score, reverse=True): descending by score, stable.
SortByScoreDesc(pairs) ==
    IF Len(pairs) = 0 THEN <<>>
    ELSE LET best == CHOOSE i \in 1..Len(pairs) :
                        /\ \A j \in 1..Len(pairs) : FloatLeq(pairs[j][2], pairs[i][2])
                        /\ \A j \in 1..(i - 1) : FloatLess(pairs[j][2], pairs[i][2])
         IN  <<pairs[best]>> \o
             SortByScoreDesc(SubSeq(pairs, 1, best - 1) \o SubSeq(pairs, best + 1, Len(pairs)))

\* The list that stands for the ValueError leaving find_most_similar: no
\* candidate has position 0.
RaisedValueError == <<<<0, ValueError>>>>

RECURSIVE ScoredFrom(_, _, _, _)
\* The loop of find_most_similar from index i on: the (index, score) pairs of
\* the candidates that are not None and whose score reaches the threshold;
\* the ValueError of cosine_similarity on one of them leaves the loop.
ScoredFrom(query_embedding, candidate_embeddings, threshold, i) ==
    IF i > Len(candidate_embeddings) THEN <<>>
    ELSE IF \E j \in i..Len(candidate_embeddings) :
                ShapeMismatch(query_embedding, candidate_embeddings[j])
    THEN RaisedValueError
    ELSE LET score == cosine_similarity(query_embedding, candidate_embeddings[i])
             rest == ScoredFrom(query_embedding, candidate_embeddings, threshold, i + 1)
         IN  IF candidate_embeddings[i] # NoVector /\ FloatLeq(threshold, score)
             THEN <<<<i, score>>>> \o rest ELSE rest

\* find_most_similar: indices are positions in candidate_embeddings (from 1).
find_most_similar(query_embedding, candidate_embeddings, threshold) ==
    IF query_embedding = NoVector \/ Len(candidate_embeddings) = 0 THEN <<>>
    ELSE CHOOSE sorted \in
            {SortByScoreDesc(similarities) :
                similarities \in
                    {ScoredFrom(query_embedding, candidate_embeddings, threshold, 1)}} : TRUE

\* ------------------------------------------------------------------------
\* src/tools/reasoning.py
\* ------------------------------------------------------------------------

\* Python truthiness of an Optional string: neither None nor empty.
Truthy(x) == x # None /\ Len(x) > 0

\* Python truthiness of an Optional vector: neither None nor empty.
HasEmbedding(p) == p.embedding # NoVector /\ Len(p.embedding) > 0

\* The arithmetic of filter_score (lines 137-146) on the four counts.
filter_score_of(mapache_count, filter_count, red_flag_count, indicator_count) ==
    LET base_score ==
            FloatAdd(
                FloatSub(
                    FloatSub(
                        FloatAdd(Hundredths[50],
                                 FloatMin(FloatMul(FloatOfInt(mapache_count), Hundredths[10]),
                                          Hundredths[40])),
                        FloatMul(FloatOfInt(filter_count), Hundredths[20])),
                    FloatMul(FloatOfInt(red_flag_count), Hundredths[15])),
                FloatMul(FloatOfInt(indicator_count), Hundredths[5]))
    IN  Clamp01(base_score)

\* ReasoningEngine.filter_score, on the task description.
filter_score(task_description) ==
    LET description_lower == Lower(task_description)
        mapache_count == CountIn(MAPACHE_KEYWORDS, description_lower)
        filter_count == CountIn(FILTER_OUT_KEYWORDS, description_lower)
        red_flag_count == CountIn(RED_FLAGS, description_lower)
        indicators == extract_project_indicators(description_lower)
    IN  IF get_filter_category(description_lower) # None THEN Hundredths[10]
        ELSE filter_score_of(mapache_count, filter_count, red_flag_count,
                             Cardinality(indicators))

clarity_indicators ==
    <<"implement", "build", "create", "deploy", "setup", "configure",
      "add", "remove", "update", "fix", "optimize", "integrate">>

vague_indicators == <<"maybe", "possibly", "think about", "consider", "explore">>

technical_terms == <<"api", "database", "service", "endpoint", "component", "module">>

\* The arithmetic of clarity_score (lines 216-229) on the length of the
\* description and on which kinds of indicator it holds, before line 232.
clarity_sum(length, has_clarity, has_vague, has_technical) ==
    LET length_score == FloatMin(FloatOfQuotient(length, 200), One)
        with_clarity ==
            IF has_clarity THEN FloatAdd(length_score, Hundredths[30])
            ELSE length_score
        with_vague ==
            IF has_vague THEN FloatSub(with_clarity, Hundredths[20])
            ELSE with_clarity
    IN  IF has_technical THEN FloatAdd(with_vague, Hundredths[10])
        ELSE with_vague

\* clarity_score without the max(0.0, min(1.0, .)) of line 232.
clarity_score_unclamped(task_description) ==
    LET description == Strip(task_description)
        lower == Lower(description)
    IN  IF Len(description) < MIN_DESCRIPTION_LENGTH THEN Hundredths[20]
        ELSE IF is_empty_or_vague(description) THEN Hundredths[30]
        ELSE clarity_sum(Len(description), AnyIn(clarity_indicators, lower),
                         AnyIn(vague_indicators, lower), AnyIn(technical_terms, lower))

\* The arithmetic of clarity_score (lines 216-232).
clarity_score_of(length, has_clarity, has_vague, has_technical) ==
    Clamp01(clarity_sum(length, has_clarity, has_vague, has_technical))

\* ReasoningEngine.clarity_score, on the task description.
clarity_score(task_description) ==
    LET description == Strip(task_description)
        has_clarity == AnyIn(clarity_indicators, Lower(description))
        has_vague == AnyIn(vague_indicators, Lower(description))
        has_technical == AnyIn(technical_terms, Lower(description))
    IN  IF Len(description) < MIN_DESCRIPTION_LENGTH THEN Hundredths[20]
        ELSE IF is_empty_or_vague(description) THEN Hundredths[30]
        ELSE clarity_score_of(Len(description), has_clarity, has_vague, has_technical)

\* What the reasoning engine derives from one text alone.
TextFacts(text) ==
    [filter_score |-> filter_score(text),
     clarity_score |-> clarity_score(text),
     keywords |-> extract_keywords(text),
     filter_category |-> get_filter_category(text),
     domain |-> get_domain(text),
     tags |-> get_tags(text)]

\* Task descriptions submitted to evaluate_task.
TaskDescriptions ==
    {"Buy curtain rods and door covers",
     "Build Slack MCP server integration for mapache.app"}

\* Task descriptions given to ReasoningEngine.evaluate on its own.
EvalDescriptions ==
    TaskDescriptions
    \cup {"", "tbd", "Deploy agent runtime service", "Buy curtain rods for Slack MCP server integration",
          "Learn Temporal.io workflow orchestration",
          "Build agent runtime deployment service for Slack MCP integration",
          "Maybe a personal family hobby at home",
          "Fix stuff",
          "  Fix it  ",
          "agent family",
          "Update the agent onboarding page and consider new colors now",
          "Implement semantic gap detection in Linear agent using Vertex AI embeddings and Firestore caching with 0.75 threshold",
          "Implement the billing service api endpoint and database module, then deploy the component and configure the integration for Slack"}

\* Names and descriptions of the projects of the catalog source.
ProjectTexts == {"Slack MCP server integration", "Billing", "Stripe billing service"}

\* TextFacts of the texts that occur in the behaviours, evaluated once.
TextTable == Tabulated([text \in EvalDescriptions \cup ProjectTexts |-> TextFacts(text)])

\* TextFacts(text), looked up where tabulated.
Facts(text) == IF text \in DOMAIN TextTable THEN TextTable[text] ELSE TextFacts(text)

\* Line 180: the overlap of two keyword sets that are not both empty.
keyword_overlap(task_keywords, project_keywords) ==
    FloatOfQuotient(Cardinality(task_keywords \cap project_keywords),
                    Cardinality(task_keywords \cup project_keywords))

\* duplicate_score without the test of line 178: the mean whatever the keyword
\* sets, an empty union giving no overlap.
keyword_overlap_score_always(task_keywords, project_keywords, similarity) ==
    FloatDiv(FloatAdd(similarity,
                      IF task_keywords \cup project_keywords = {} THEN Zero
                      ELSE keyword_overlap(task_keywords, project_keywords)),
             FloatOfInt(2))

\* ReasoningEngine.duplicate_score, from the keyword sets: the mean of the
\* similarity and the keyword overlap when both sets are non-empty.
keyword_overlap_score(task_keywords, project_keywords, similarity) ==
    IF task_keywords # {} /\ project_keywords # {}
    THEN FloatDiv(FloatAdd(similarity, keyword_overlap(task_keywords, project_keywords)),
                  FloatOfInt(2))
    ELSE similarity

\* ReasoningEngine.duplicate_score
duplicate_score(task_description, existing_project, similarity) ==
    keyword_overlap_score(Range(Facts(task_description).keywords),
                          Range(Facts(existing_project.name).keywords)
                          \cup (IF Truthy(existing_project.description)
                                THEN Range(Facts(existing_project.description).keywords)
                                ELSE {}),
                          similarity)

\* alignment_score as the plain mean of the three scores.
alignment_score_unweighted(filter_s, similarity_s, clarity_s) ==
    Clamp01(FloatDiv(FloatAdd(FloatAdd(filter_s, similarity_s), clarity_s), FloatOfInt(3)))

\* ReasoningEngine.alignment_score; red_flags_s is the constant 1.0.
alignment_score(filter_s, similarity_s, clarity_s) ==
    Clamp01(FloatAdd(
                FloatAdd(
                    FloatAdd(FloatMul(SCORE_WEIGHT_CONTEXT, filter_s),
                             FloatMul(SCORE_WEIGHT_SIMILARITY, similarity_s)),
                    FloatMul(SCORE_WEIGHT_CLARITY, clarity_s)),
                FloatMul(SCORE_WEIGHT_RED_FLAGS, One)))

TOP_MATCHES == 5

TOP_CONSOLIDATE == 3

\* The list that stands for the ValueError of find_most_similar leaving
\* _find_similar_projects.
RaisedInMatching == <<[project |-> None, similarity_score |-> ValueError]>>

\* The ValueError left _find_similar_projects.
MatchingRaised(matches) == Len(matches) > 0 /\ matches[1].similarity_score = ValueError

\* _find_similar_projects: the matches made of the top entries of
\* similar_indices.
TopMatchesOf(valid_projects, similar_indices) ==
    LET top == SubSeq(similar_indices, 1, Min(TOP_MATCHES, Len(similar_indices)))
    IN  IF similar_indices = RaisedValueError THEN RaisedInMatching
        ELSE [k \in 1..Len(top) |->
                 [project |-> valid_projects[top[k][1]], similarity_score |-> top[k][2]]]

\* _find_similar_projects on the projects that have an embedding.
SimilarAmong(task_embedding, valid_projects) ==
    IF Len(valid_projects) = 0 THEN <<>>
    ELSE CHOOSE matches \in
            {TopMatchesOf(valid_projects, similar_indices) :
                similar_indices \in
                    {find_most_similar(task_embedding,
                        [i \in 1..Len(valid_projects) |-> valid_projects[i].embedding],
                        SIMILARITY_THRESHOLD_MATCH)}} : TRUE

\* _find_similar_projects pairing the indices of similar_indices with the
\* catalog instead of valid_projects.
find_similar_projects_catalog_index(task_embedding, projects) ==
    IF Len(projects) = 0 THEN <<>>
    ELSE LET valid_projects == SelectSeq(projects, LAMBDA p : HasEmbedding(p))
         IN  IF Len(valid_projects) = 0 THEN <<>>
             ELSE TopMatchesOf(projects,
                      find_most_similar(task_embedding,
                          [i \in 1..Len(valid_projects) |-> valid_projects[i].embedding],
                          SIMILARITY_THRESHOLD_MATCH))

\* ReasoningEngine._find_similar_projects: the matches, best first.
find_similar_projects(task_embedding, projects) ==
    IF Len(projects) = 0 THEN <<>>
    ELSE CHOOSE matches \in
            {SimilarAmong(task_embedding, valid_projects) :
                valid_projects \in {SelectSeq(projects, LAMBDA p : HasEmbedding(p))}} : TRUE

\* Decision (src/models/decision.py) with the fields the pipeline sets.
MkDecision(type, conf, mapped, cons, reason, align, tags, questions) ==
    [decision |-> type, confidence |-> conf, mapped_project |-> mapped,
     consolidate_with |-> cons, reasoning |-> reason, alignment_score |-> align,
     tags |-> tags, clarification_questions |-> questions]

\* _create_add_decision with the alignment score itself as confidence.
create_add_decision_alignment_confidence(facts, matches, alignment) ==
    MkDecision("add", alignment,
               IF Len(matches) > 0 THEN matches[1].project.id ELSE None,
               <<>>, "This task aligns with mapache.app work", alignment,
               facts.tags, <<>>)

\* ReasoningEngine._create_add_decision
create_add_decision(facts, matches, alignment) ==
    MkDecision("add", FloatMin(FloatAdd(alignment, Hundredths[10]), One),
               IF Len(matches) > 0 THEN matches[1].project.id ELSE None,
               <<>>, "This task aligns with mapache.app work", alignment,
               facts.tags, <<>>)

\* ReasoningEngine._create_filter_decision
create_filter_decision(facts, filter_s) ==
    MkDecision("filter", FloatSub(One, filter_s), None, <<>>,
               "This task does not align with mapache.app work", filter_s,
               IF facts.filter_category # None
               THEN {facts.filter_category} ELSE {"not_mapache"},
               <<>>)

\* _create_consolidate_decision that lists every match in consolidate_with.
create_consolidate_decision_all_matches(facts, matches, duplicate_s) ==
    MkDecision("consolidate", duplicate_s, matches[1].project.id,
               [k \in 1..Len(matches) |-> matches[k].project.id],
               "Suggest consolidating instead of creating duplicate", Hundredths[90],
               facts.tags, <<>>)

\* ReasoningEngine._create_consolidate_decision
create_consolidate_decision(facts, matches, duplicate_s) ==
    MkDecision("consolidate", duplicate_s, matches[1].project.id,
               [k \in 1..Min(TOP_CONSOLIDATE, Len(matches)) |-> matches[k].project.id],
               "Suggest consolidating instead of creating duplicate", Hundredths[90],
               facts.tags, <<>>)

\* _create_clarify_decision without the question asked when no signal is missing.
create_clarify_decision_no_default(task_description, facts, clarity_s) ==
    MkDecision("clarify", FloatAdd(Hundredths[30], FloatMul(clarity_s, Hundredths[30])),
               None, <<>>, "Task description needs clarification", Hundredths[50],
               {"needs_clarification"},
               (IF Len(task_description) < 20
                THEN <<"Can you provide more details about what needs to be done?">>
                ELSE <<>>)
               \o (IF Len(facts.keywords) = 0
                   THEN <<"What is the specific goal or expected outcome?">>
                   ELSE <<>>)
               \o (IF facts.domain = None
                   THEN <<"Which mapache.app component does this relate to?">>
                   ELSE <<>>))

\* ReasoningEngine._create_clarify_decision
create_clarify_decision(task_description, facts, clarity_s) ==
    LET q1 == IF Len(task_description) < 20
              THEN <<"Can you provide more details about what needs to be done?">>
              ELSE <<>>
        q2 == IF Len(facts.keywords) = 0
              THEN <<"What is the specific goal or expected outcome?">>
              ELSE <<>>
        q3 == IF facts.domain = None
              THEN <<"Which mapache.app component does this relate to?">>
              ELSE <<>>
        questions == q1 \o q2 \o q3
    IN  MkDecision("clarify", FloatAdd(Hundredths[30], FloatMul(clarity_s, Hundredths[30])),
                   None, <<>>, "Task description needs clarification", Hundredths[50],
                   {"needs_clarification"},
                   IF Len(questions) = 0
                   THEN <<"Please provide more context about this task.">>
                   ELSE questions)

\* The record that stands for the ValueError of _find_similar_projects leaving
\* evaluate.
RaisedInEvaluate ==
    MkDecision("ValueError", Zero, None, <<>>, "shapes not aligned", Zero, {}, <<>>)

\* apply_rules with the clarity rule tried before the filter rule.
apply_rules_clarity_first(task_description, facts, matches, duplicate_s, alignment) ==
    IF FloatLess(facts.clarity_score, CLARITY_THRESHOLD)
    THEN create_clarify_decision(task_description, facts, facts.clarity_score)
    ELSE IF FloatLess(facts.filter_score, CONFIDENCE_FILTER)
    THEN create_filter_decision(facts, facts.filter_score)
    ELSE IF MatchingRaised(matches) THEN RaisedInEvaluate
    ELSE IF Len(matches) > 0 /\ FloatLeq(DUPLICATE_THRESHOLD, duplicate_s)
    THEN create_consolidate_decision(facts, matches, duplicate_s)
    ELSE IF FloatLeq(ALIGNMENT_SCORE_THRESHOLD, alignment)
    THEN create_add_decision(facts, matches, alignment)
    ELSE create_clarify_decision(task_description, facts, facts.clarity_score)

\* ReasoningEngine.evaluate, steps 2 to 7 on the computed scores: the first rule
\* that applies decides. duplicate_s is read only when there is a match.  The
\* matching of step 4 is reached, and its ValueError raised, only when neither
\* of the first two rules has returned.
apply_rules(task_description, facts, matches, duplicate_s, alignment) ==
    IF FloatLess(facts.filter_score, CONFIDENCE_FILTER)
    THEN create_filter_decision(facts, facts.filter_score)
    ELSE IF FloatLess(facts.clarity_score, CLARITY_THRESHOLD)
    THEN create_clarify_decision(task_description, facts, facts.clarity_score)
    ELSE IF MatchingRaised(matches) THEN RaisedInEvaluate
    ELSE IF Len(matches) > 0 /\ FloatLeq(DUPLICATE_THRESHOLD, duplicate_s)
    THEN create_consolidate_decision(facts, matches, duplicate_s)
    ELSE IF FloatLeq(ALIGNMENT_SCORE_THRESHOLD, alignment)
    THEN create_add_decision(facts, matches, alignment)
    ELSE create_clarify_decision(task_description, facts, facts.clarity_score)

\* ReasoningEngine.evaluate, from the facts of the description and the matches.
evaluate_matches(task_description, facts, matches) ==
    apply_rules(task_description, facts, matches,
                duplicate_score(task_description, matches[1].project,
                                matches[1].similarity_score),
                alignment_score(facts.filter_score,
                                IF Len(matches) > 0 THEN matches[1].similarity_score ELSE Zero,
                                facts.clarity_score))

\* ReasoningEngine.evaluate
evaluate(task_description, task_embedding, existing_projects) ==
    CHOOSE decision \in
        {evaluate_matches(task_description, facts, matches) :
            facts \in {Facts(task_description)},
            matches \in {find_similar_projects(task_embedding, existing_projects)}} : TRUE

\* ------------------------------------------------------------------------
\* Bounds and input domains
\* ------------------------------------------------------------------------

\* Number of API calls (coroutines) started in one behaviour.
MaxCalls == 2

\* Number of clock advances in one behaviour: jumps by a TTL and delayed
\* clock reads.
MaxTicks == 2

\* Seconds that can pass between two successive clock reads of the code that
\* runs: a blocking request lies between them.
MaxStepSeconds == 1

\* Number of failing collaborator requests in one behaviour (the retries of
\* one request count once).
MaxFaults == 1

\* Number of times the catalog at the source changes in one behaviour.
MaxSourceChanges == 1

\* Number of events of the environment in one behaviour: failing requests,
\* clock advances and changes of the catalog at the source.
MaxEvents == 2

Calls == 1..MaxCalls

Agents == {"a1"}


\* Texts passed to EmbeddingService.get_embedding directly: two of them differ
\* only in letter case and whitespace.
EmbeddingTexts ==
    {"Build Slack MCP server integration for mapache.app",
     "build slack  MCP server integration for mapache.app",
     ""}

\* Longest list of texts passed to EmbeddingService.get_embeddings.
MaxTexts == 2

\* Texts passed to EmbeddingService.get_embeddings: two the model tells apart
\* and the empty text.
BatchTexts == {"Slack MCP server integration", "Billing", ""}

\* The lists of texts passed to EmbeddingService.get_embeddings.
TextLists == UNION {[1..n -> BatchTexts] : n \in 0..MaxTexts}

\* Vectors the embedding provider can return.
ProviderVectors == {<<1, 0>>, <<4, 3>>, <<0, 1>>}

\* numpy.zeros(settings.embeddings_dimension), in the dimension of the model.
zeros == <<0, 0>>

\* Order of the document ids in the projects collection.
ProjectIds == <<"p1", "p2">>

\* A LinearProject as LinearMCPClient.list_projects builds it: no embedding, no
\* cached_at.  fetched_at is a history field, not a field of the program: the
\* time at which list_projects returned the record, NoTime at the source.
SourceProject(id, name, description) ==
    [id |-> id, name |-> name, description |-> description,
     embedding |-> NoVector, cached_at |-> NoTime, fetched_at |-> NoTime]

\* Snapshots the catalog source can hold.
Catalogs ==
    {<<>>,
     <<SourceProject("p1", "Slack MCP server integration", None)>>,
     <<SourceProject("p1", "Slack MCP server integration", None),
       SourceProject("p2", "Billing", "Stripe billing service")>>}

\* Steps by which the clock advances around the project TTL: ages 0, TTL and
\* 2 * TTL fall before, on and after the expiry boundary.
ProjectTickSteps == {CACHE_TTL_PROJECTS}

\* Steps by which the clock advances around the embedding TTL.
EmbeddingTickSteps == {CACHE_TTL_EMBEDDINGS}

\* ------------------------------------------------------------------------
\* State
\* ------------------------------------------------------------------------

VARIABLES
    now,             \* datetime.now(), in seconds
    ticks,           \* clock advances so far
    faults,          \* injected failures so far
    source_changes,  \* catalog changes at the source so far
    linear_source,   \* the catalog held by the catalog source (Linear)
    projects_col,    \* Firestore projects collection: document id -> document
    embeddings_col,  \* Firestore embeddings collection: text hash -> document
    decisions_col,   \* Firestore decisions collection, in order of writing
    agent_state,     \* Firestore agent_state document "current"
    projects_cache,  \* LinearSemanticAgent._projects_cache per agent: NoRef or a list object
    cache_time,      \* LinearSemanticAgent._cache_time per agent
    lists,           \* the list objects: lists[c] is the list created by call c
    calls,           \* the coroutines: one record per call
    running,         \* the coroutine the event loop is running, or NoRef
    ev,              \* last application of ReasoningEngine.evaluate to drawn inputs
    snapshot         \* history: ids of the last catalog fetched and written to projects_col

vars == <<now, ticks, faults, source_changes, linear_source, projects_col,
          embeddings_col, decisions_col, agent_state, projects_cache, cache_time,
          lists, calls, running, ev, snapshot>>

\* A collection without documents.
EmptyMap == [k \in {} |-> None]

\* A call that has not been started.
IdleCall ==
    [pc |-> "idle", kind |-> None, agent |-> None, force |-> FALSE, text |-> None,
     use_cache |-> TRUE,
     projects |-> NoRef, task_embedding |-> NoVector,
     emb_text |-> None, emb_for |-> None, attempts |-> 0,
     failed_at |-> NoTime, response |-> <<>>,
     needing |-> <<>>, next |-> 0,
     result |-> None, raised |-> None, decided |-> None,
     mem_set |-> FALSE, mem_fresh |-> FALSE, mem_hit |-> FALSE, store_reads |-> 0, store_hit |-> FALSE,
     fetches |-> 0, fetched |-> None, provider_calls |-> 0,
     read_faults |-> 0, write_faults |-> 0, source_faults |-> 0,
     hits |-> {}, after |-> {}, started_at |-> NoTime, lookup_at |-> NoTime,
     entry_at |-> NoTime,
     texts |-> <<>>, embeddings |-> <<>>, texts_to_embed |-> <<>>,
     cache_indices |-> <<>>, batches |-> <<>>, cached_at_scan |-> <<>>]

\* What a direct get_embedding call notes when it begins: the time and the
\* calls that have returned.
Begun == [started_at |-> now, after |-> {k \in Calls : calls[k].pc = "done"}]

Init ==
    /\ now = 0
    /\ ticks = 0
    /\ faults = 0
    /\ source_changes = 0
    /\ linear_source = <<SourceProject("p1", "Slack MCP server integration", None)>>
    /\ projects_col = EmptyMap
    /\ embeddings_col = EmptyMap
    /\ decisions_col = <<>>
    /\ agent_state = [projects_count |-> 0, last_sync |-> NoTime, last_updated |-> NoTime,
                       last_init |-> NoTime, health_status |-> None, version |-> None]
    /\ projects_cache = [a \in Agents |-> NoRef]
    /\ cache_time = [a \in Agents |-> NoTime]
    /\ lists = [c \in Calls |-> <<>>]
    /\ calls = [c \in Calls |-> IdleCall]
    /\ running = NoRef
    /\ ev = <<>>
    /\ snapshot = {}

\* ------------------------------------------------------------------------
\* src/integrations/firestore_client.py
\* ------------------------------------------------------------------------

\* r with the fields of u overwritten.
Merge(r, u) == [k \in DOMAIN r |-> IF k \in DOMAIN u THEN u[k] ELSE r[k]]

\* Position of a document id in the order of the collection.
IdIndex(id) == CHOOSE i \in 1..Len(ProjectIds) : ProjectIds[i] = id

RECURSIVE cache_projects(_, _, _)
\* FirestoreClient.cache_projects: one batch.set per project, all stamped cached_at.
cache_projects(col, projects, cached_at) ==
    IF Len(projects) = 0 THEN col
    ELSE cache_projects((projects[1].id :> Merge(projects[1], [cached_at |-> cached_at])) @@ col,
                        Tail(projects), cached_at)

\* The filter of the query in get_cached_projects: cached_at >= cutoff_time.
NotExpiredProject(doc, t, max_age_seconds) == doc.cached_at >= t - max_age_seconds

RECURSIVE OrderDocs(_)
\* The documents of a query result, ordered by cached_at and then document id.
OrderDocs(docs) ==
    IF docs = {} THEN <<>>
    ELSE LET first == CHOOSE d \in docs : \A e \in docs :
                          \/ d.cached_at < e.cached_at
                          \/ d.cached_at = e.cached_at /\ IdIndex(d.id) <= IdIndex(e.id)
         IN  <<first>> \o OrderDocs(docs \ {first})

\* FirestoreClient.get_cached_projects at time t.
get_cached_projects(col, t) ==
    OrderDocs({col[id] : id \in {k \in DOMAIN col :
                                   NotExpiredProject(col[k], t, CACHE_TTL_PROJECTS)}})

\* FirestoreClient._hash_text: sha256 of the text as given, injective on texts.
hash_text(text) == "sha256:" \o text

\* The document key under which the embedding of a text is cached.
EmbeddingKey(text) == hash_text(text)

\* FirestoreClient.store_embedding at time t.
store_embedding(col, text, embedding, t) ==
    (EmbeddingKey(text) :> [text |-> text, embedding |-> embedding, created_at |-> t,
                            ttl_seconds |-> CACHE_TTL_EMBEDDINGS]) @@ col

\* The TTL test of FirestoreClient.get_embedding: the document is expired.
ExpiredEmbedding(doc, t) == t - doc.created_at > doc.ttl_seconds

\* get_embedding that never finds a document.
get_embedding_always_misses(col, text, t) == NoVector

\* FirestoreClient.get_embedding at time t: the cached vector or NoVector.
get_embedding(col, text, t) ==
    IF EmbeddingKey(text) \notin DOMAIN col THEN NoVector
    ELSE LET doc == col[EmbeddingKey(text)]
         IN  IF ExpiredEmbedding(doc, t) THEN NoVector
             ELSE IF Len(doc.embedding) > 0 THEN doc.embedding
             ELSE NoVector

\* store_decision writing the confidence of the error decision.
DecisionDoc_zero_confidence(decision, task_description, t) ==
    [task_description |-> task_description, decision |-> decision.decision,
     confidence |-> Zero, mapped_project_id |-> decision.mapped_project,
     consolidate_with |-> decision.consolidate_with,
     alignment_score |-> decision.alignment_score, tags |-> decision.tags,
     created_at |-> t]

\* The record written by FirestoreClient.store_decision.
DecisionDoc(decision, task_description, t) ==
    [task_description |-> task_description, decision |-> decision.decision,
     confidence |-> decision.confidence, mapped_project_id |-> decision.mapped_project,
     consolidate_with |-> decision.consolidate_with,
     alignment_score |-> decision.alignment_score, tags |-> decision.tags,
     created_at |-> t]

\* ------------------------------------------------------------------------
\* src/agent.py and src/integrations/vertex_ai.py: the coroutines
\* ------------------------------------------------------------------------

\* The decision returned by the except branch of evaluate_task.
ErrorDecision(msg) ==
    MkDecision("clarify", Zero, None, <<>>, "Error during evaluation: " \o msg, Zero,
               {"error"}, <<>>)

\* RaiseUpdate without the except branch of evaluate_task.
RaiseUpdate_uncaught(call, msg) == [pc |-> "done", raised |-> msg]

\* An exception leaves the coroutine: evaluate_task catches it and returns the
\* error decision, the other entry points let it reach their caller.
RaiseUpdate(call, msg) ==
    IF call.kind = "evaluate_task"
    THEN [pc |-> "done", result |-> ErrorDecision(msg)]
    ELSE [pc |-> "done", raised |-> msg]

\* stop_after_attempt that allows one attempt more.
stop_after_attempt_one_more(attempt_number) == attempt_number >= MAX_ATTEMPTS + 1

\* tenacity's stop_after_attempt(3) of embed_text, embed_texts and
\* _make_request: no attempt follows the failed attempt of that number.
stop_after_attempt(attempt_number) == attempt_number >= MAX_ATTEMPTS

\* The events of the environment so far.
Events == faults + ticks + source_changes

\* A failure may be injected.
CanFault == faults < MaxFaults /\ Events < MaxEvents

\* Calls are started in the order of their ids.
NextToStart(c) ==
    calls[c].pc = "idle" /\ (IF c = 1 THEN TRUE ELSE calls[c - 1].pc # "idle")

\* The smallest and the largest wait of wait_exponential(multiplier=1, min=2,
\* max=10), in seconds.
WAIT_MIN == 2
WAIT_MAX == 10

\* tenacity's wait_exponential(multiplier=1, min=2, max=10): the seconds the
\* coroutine sleeps after the failed attempt of that number.
wait_exponential(attempt_number) ==
    LET result == 2 ^ (attempt_number - 1)
    IN  IF result < WAIT_MIN THEN WAIT_MIN
        ELSE IF result > WAIT_MAX THEN WAIT_MAX
        ELSE result

\* What a request under @retry notes when an attempt failed: the attempt and
\* the time; the last attempt raises the RetryError.
FailedAttempt(call, sleep) ==
    IF stop_after_attempt(call.attempts + 1)
    THEN RaiseUpdate(call, "RetryError") @@ [attempts |-> call.attempts + 1]
    ELSE [pc |-> sleep, attempts |-> call.attempts + 1, failed_at |-> now]

\* The time at which the backoff sleep of a call ends: the wait of
\* wait_exponential after the failure, or later when the loop was busy.
WakeAt(call) ==
    IF now > call.failed_at + wait_exponential(call.attempts) THEN now
    ELSE call.failed_at + wait_exponential(call.attempts)

\* The clock advances among the delays d.
Advances(d) == Cardinality({i \in DOMAIN d : d[i] > 0})

\* The delays d are within the bounds of the clock.
ClockAllows(d) ==
    Advances(d) > 0 =>
        /\ ticks + Advances(d) <= MaxTicks
        /\ Events + Advances(d) <= MaxEvents

\* A failure may be injected in a step whose clock reads have the delays d.
CanFaultWith(d) == faults < MaxFaults /\ Events + Advances(d) < MaxEvents

\* The delays before each of the n successive datetime.now() calls of a step
\* that the coroutine begins by itself: the first call reads the clock as the
\* step finds it, a blocking request lies before each of the others.
StepDelays(n) ==
    {d \in [1..n -> 0..MaxStepSeconds] : (n > 0 => d[1] = 0) /\ ClockAllows(d)}

\* The delays before each of the n successive datetime.now() calls of a step
\* that begins with a blocking request (a read or a write of the store, a
\* request to the provider): time passes before the first clock read as well.
RequestDelays(n) ==
    {d \in [1..n -> 0..MaxStepSeconds] : ClockAllows(d)}

RECURSIVE ReadAt(_, _)
\* datetime.now() at the i-th clock read of a step with delays d.
ReadAt(d, i) == IF i = 0 THEN now ELSE ReadAt(d, i - 1) + d[i]

\* The clock after the n clock reads of a step with delays d.
Elapse(d, n) ==
    /\ now' = ReadAt(d, n)
    /\ ticks' = ticks + Advances(d)

\* What a call that begins at time t finds in the in-process tier of agent
\* a: whether _projects_cache and _cache_time are set, and whether the age of
\* the entry is below the TTL (agent.py 159-160).
MemoryEntrySeen(a, t) ==
    [mem_set |-> projects_cache[a] # NoRef /\ cache_time[a] # NoTime,
     mem_fresh |-> cache_time[a] # NoTime /\ t - cache_time[a] < CACHE_TTL_PROJECTS]

\* MemoryCacheUsable without the test of force.
MemoryCacheUsable_force_ignored(a, force, t) ==
    /\ projects_cache[a] # NoRef
    /\ Len(lists[projects_cache[a]]) > 0
    /\ cache_time[a] # NoTime
    /\ t - cache_time[a] < CACHE_TTL_PROJECTS

\* The test of get_or_refresh_projects on the in-process entry (agent.py 158-160).
MemoryCacheUsable(a, force, t) ==
    /\ ~force
    /\ projects_cache[a] # NoRef
    /\ Len(lists[projects_cache[a]]) > 0
    /\ cache_time[a] # NoTime
    /\ t - cache_time[a] < CACHE_TTL_PROJECTS

\* POST /evaluate-task: LinearSemanticAgent.evaluate_task(task) begins.
StartEvaluate(c, a, d) ==
    /\ running = NoRef
    /\ NextToStart(c)
    /\ calls' = [calls EXCEPT ![c] = Merge(@,
           [pc |-> "get_projects", kind |-> "evaluate_task", agent |-> a, text |-> d,
            force |-> FALSE,
            mem_set |-> MemoryEntrySeen(a, now).mem_set,
            mem_fresh |-> MemoryEntrySeen(a, now).mem_fresh])]
    /\ running' = c
    /\ UNCHANGED <<now, ticks, faults, source_changes, linear_source, projects_col,
                   embeddings_col, decisions_col, agent_state, projects_cache,
                   cache_time, lists, ev, snapshot>>

\* LinearSemanticAgent.get_or_refresh_projects(force) begins.
StartRefresh(c, a, force) ==
    /\ running = NoRef
    /\ NextToStart(c)
    /\ calls' = [calls EXCEPT ![c] = Merge(@,
           [pc |-> "get_projects", kind |-> "get_or_refresh_projects", agent |-> a,
            force |-> force,
            mem_set |-> MemoryEntrySeen(a, now).mem_set,
            mem_fresh |-> MemoryEntrySeen(a, now).mem_fresh])]
    /\ running' = c
    /\ UNCHANGED <<now, ticks, faults, source_changes, linear_source, projects_col,
                   embeddings_col, decisions_col, agent_state, projects_cache,
                   cache_time, lists, ev, snapshot>>

\* EmbeddingService.get_embedding(text, use_cache=use_cache) begins.
StartGetEmbedding(c, a, t, use_cache) ==
    /\ running = NoRef
    /\ NextToStart(c)
    /\ calls' = [calls EXCEPT ![c] = Merge(@,
           [pc |-> "emb_lookup", kind |-> "get_embedding", agent |-> a, text |-> t,
            use_cache |-> use_cache, emb_text |-> t, emb_for |-> "caller",
            started_at |-> Begun.started_at, after |-> Begun.after])]
    /\ running' = c
    /\ UNCHANGED <<now, ticks, faults, source_changes, linear_source, projects_col,
                   embeddings_col, decisions_col, agent_state, projects_cache,
                   cache_time, lists, ev, snapshot>>

\* get_or_refresh_projects has its list (the list object ref, whose value is
\* value): it returns to its caller, initialize goes on to update_agent_state,
\* evaluate_task goes on to embed_task.
ProjectsUpdate(call, ref, value) ==
    IF call.kind = "get_or_refresh_projects"
    THEN [pc |-> "done", projects |-> ref, result |-> value]
    ELSE IF call.kind = "initialize"
    THEN [pc |-> "update_state", projects |-> ref]
    ELSE [pc |-> "emb_lookup", projects |-> ref, emb_text |-> call.text,
          emb_for |-> "task", attempts |-> 0]

\* The coroutine the loop runs after call c obtained its projects.
RunningAfterProjects(c) ==
    IF calls[c].kind = "get_or_refresh_projects" THEN NoRef ELSE c

\* get_or_refresh_projects up to line 171: the in-process entry is returned.
GetProjectsFromMemory(c) ==
    LET call == calls[c]
        a == call.agent
    IN  /\ running = c
        /\ call.pc = "get_projects"
        /\ MemoryCacheUsable(a, call.force, now)
        /\ calls' = [calls EXCEPT ![c] = Merge(Merge(@,
               [mem_hit |-> TRUE,
                hits |-> call.hits \cup {[tier |-> "memory", age |-> now - cache_time[a],
                                          ttl |-> CACHE_TTL_PROJECTS]}]),
               ProjectsUpdate(call, projects_cache[a], lists[projects_cache[a]]))]
        /\ running' = RunningAfterProjects(c)
        /\ UNCHANGED <<now, ticks, faults, source_changes, linear_source, projects_col,
                       embeddings_col, decisions_col, agent_state, projects_cache,
                       cache_time, lists, ev, snapshot>>

\* get_or_refresh_projects lines 164-171: the read of the persistent tier
\* fails, after the clock reads of lines 159 and 90.
GetProjectsReadFails(c, d) ==
    LET call == calls[c]
    IN  /\ running = c
        /\ call.pc = "get_projects"
        /\ ~MemoryCacheUsable(call.agent, call.force, ReadAt(d, 1))
        /\ Elapse(d, 2)
        /\ ~call.force
        /\ CanFaultWith(d)
        /\ faults' = faults + 1
        /\ calls' = [calls EXCEPT ![c] = Merge(Merge(@,
               [store_reads |-> call.store_reads + 1, read_faults |-> call.read_faults + 1]),
               RaiseUpdate(call, "firestore read failed"))]
        /\ running' = NoRef
        /\ UNCHANGED <<source_changes, linear_source, projects_col,
                       embeddings_col, decisions_col, agent_state, projects_cache,
                       cache_time, lists, ev, snapshot>>

\* get_or_refresh_projects lines 164-171: the persistent tier has documents,
\* which become the in-process entry.  The clock is read for the age of the
\* in-process entry (line 159), for the cutoff of get_cached_projects
\* (firestore_client.py 90) and for _cache_time (line 170).
GetProjectsFromStore(c, d) ==
    LET call == calls[c]
        a == call.agent
    IN  /\ running = c
        /\ call.pc = "get_projects"
        /\ ~call.force
        /\ \E cached_projects \in {get_cached_projects(projects_col, ReadAt(d, 2))} :
            /\ ~MemoryCacheUsable(a, call.force, ReadAt(d, 1))
            /\ Len(cached_projects) > 0
            /\ lists' = [lists EXCEPT ![c] = cached_projects]
            /\ cache_time' = [cache_time EXCEPT ![a] = ReadAt(d, 3)]
            /\ calls' = [calls EXCEPT ![c] = Merge(Merge(@,
                   [store_reads |-> call.store_reads + 1, store_hit |-> TRUE,
                    hits |-> call.hits \cup
                        {[tier |-> "projects",
                          age |-> ReadAt(d, 2) - cached_projects[i].cached_at,
                          ttl |-> CACHE_TTL_PROJECTS] : i \in 1..Len(cached_projects)}]),
                   ProjectsUpdate(call, c, cached_projects))]
            /\ Elapse(d, 3)
        /\ projects_cache' = [projects_cache EXCEPT ![a] = c]
        /\ running' = RunningAfterProjects(c)
        /\ UNCHANGED <<faults, source_changes, linear_source, projects_col,
                       embeddings_col, decisions_col, agent_state, ev, snapshot>>

\* get_or_refresh_projects lines 173-175: neither tier served the call (or
\* force is set); the request to the catalog source is sent and the coroutine
\* is suspended until the response.
GetProjectsFetch(c, d) ==
    LET call == calls[c]
    IN  /\ running = c
        /\ call.pc = "get_projects"
        /\ ~MemoryCacheUsable(call.agent, call.force, ReadAt(d, 1))
        /\ (IF call.force THEN TRUE
            ELSE Len(get_cached_projects(projects_col, ReadAt(d, 2))) = 0)
        /\ Elapse(d, 2)
        /\ calls' = [calls EXCEPT ![c] = Merge(@,
               [pc |-> "fetch", attempts |-> 0, fetches |-> call.fetches + 1,
                store_reads |-> call.store_reads + (IF call.force THEN 0 ELSE 1)])]
        /\ running' = NoRef
        /\ UNCHANGED <<faults, source_changes, linear_source, projects_col,
                       embeddings_col, decisions_col, agent_state, projects_cache,
                       cache_time, lists, ev, snapshot>>

\* LinearMCPClient._make_request under @retry: one attempt fails; after
\* MAX_ATTEMPTS failed attempts the RetryError leaves list_projects, otherwise
\* the coroutine sleeps and tries again.
LinearFetchFails(c) ==
    LET call == calls[c]
    IN  /\ running = NoRef
        /\ call.pc = "fetch"
        /\ call.attempts = 0 => CanFault
        /\ faults' = IF call.attempts = 0 THEN faults + 1 ELSE faults
        /\ calls' = [calls EXCEPT ![c] = Merge(Merge(@,
               [source_faults |-> call.source_faults + 1]),
               FailedAttempt(call, "fetch_sleep"))]
        /\ running' = NoRef
        /\ UNCHANGED <<now, ticks, source_changes, linear_source, projects_col,
                       embeddings_col, decisions_col, agent_state, projects_cache,
                       cache_time, lists, ev, snapshot>>

\* The backoff sleep of _make_request ends: the next attempt is sent.
LinearFetchRetry(c) ==
    LET call == calls[c]
    IN  /\ running = NoRef
        /\ call.pc = "fetch_sleep"
        /\ \E wake \in {WakeAt(call)} :
            /\ now' = wake
            /\ calls' = [calls EXCEPT ![c] = Merge(@,
                   [pc |-> "fetch", failed_at |-> NoTime])]
        /\ UNCHANGED <<ticks, faults, source_changes, linear_source, projects_col,
                       embeddings_col, decisions_col, agent_state, projects_cache,
                       cache_time, lists, running, ev, snapshot>>

\* The catalog source answers (linear_mcp.py 82-91): the response holds the
\* catalog as the source has it now.  The coroutine is suspended once more
\* when it leaves `async with httpx.AsyncClient`, so that other coroutines
\* run before the response is used.
LinearFetchAnswered(c) ==
    LET call == calls[c]
    IN  /\ running = NoRef
        /\ call.pc = "fetch"
        /\ calls' = [calls EXCEPT ![c] = Merge(@,
               [pc |-> "fetch_close",
                response |-> [i \in 1..Len(linear_source) |->
                                 [linear_source[i] EXCEPT !.fetched_at = now]]])]
        /\ UNCHANGED <<now, ticks, faults, source_changes, linear_source, projects_col,
                       embeddings_col, decisions_col, agent_state, projects_cache,
                       cache_time, lists, running, ev, snapshot>>

\* list_projects returns the projects of the response and
\* get_or_refresh_projects lines 177-191 run: cache_projects, the in-process
\* entry, update_agent_state.  wf names the persistent write that fails, if
\* any.  The clock is read for cached_at (firestore_client.py 55), _cache_time
\* (line 182), last_sync (line 187) and last_updated (firestore_client.py
\* 254), as far as the step gets.
CacheFetchedProjects(c, wf, d) ==
    LET call == calls[c]
        a == call.agent
        projects == call.response
    IN  /\ running = NoRef
        /\ call.pc = "fetch_close"
        /\ wf \in {"none", "cache_projects", "update_agent_state"}
        /\ wf # "none" => CanFaultWith(d)
        /\ faults' = IF wf = "none" THEN faults ELSE faults + 1
        /\ lists' = [lists EXCEPT ![c] = projects]
        /\ wf = "cache_projects" => \A i \in 2..4 : d[i] = 0
        /\ projects_col' = IF wf = "cache_projects" THEN projects_col
                           ELSE cache_projects(projects_col, projects, ReadAt(d, 1))
        /\ cache_time' = IF wf = "cache_projects" THEN cache_time
                         ELSE [cache_time EXCEPT ![a] = ReadAt(d, 2)]
        /\ agent_state' = IF wf = "none"
                          THEN Merge(agent_state,
                                     [projects_count |-> Len(projects),
                                      last_sync |-> ReadAt(d, 3),
                                      last_updated |-> ReadAt(d, 4)])
                          ELSE agent_state
        /\ Elapse(d, 4)
        /\ projects_cache' = IF wf = "cache_projects" THEN projects_cache
                             ELSE [projects_cache EXCEPT ![a] = c]
        /\ calls' = [calls EXCEPT ![c] = Merge(Merge(@,
               [fetched |-> projects, response |-> <<>>,
                write_faults |-> call.write_faults + (IF wf = "none" THEN 0 ELSE 1)]),
               IF wf = "none" THEN ProjectsUpdate(call, c, projects)
               ELSE RaiseUpdate(call, "firestore write failed"))]
        /\ running' = IF wf = "none" THEN RunningAfterProjects(c) ELSE NoRef
        /\ snapshot' = IF wf = "cache_projects" THEN snapshot
                       ELSE {projects[i].id : i \in 1..Len(projects)}
        /\ UNCHANGED <<source_changes, linear_source, embeddings_col,
                       decisions_col, ev>>

\* initialize lines 63-70: update_agent_state with last_init, health_status
\* and version; wf: the write fails and the exception leaves initialize.  The
\* clock is read for last_init (line 65) and last_updated
\* (firestore_client.py 254).
InitializeUpdate(c, wf, d) ==
    LET call == calls[c]
    IN  /\ running = c
        /\ call.pc = "update_state"
        /\ wf => CanFaultWith(d)
        /\ faults' = IF wf THEN faults + 1 ELSE faults
        /\ agent_state' = IF wf THEN agent_state
                          ELSE Merge(agent_state,
                                     [last_init |-> ReadAt(d, 1),
                                      health_status |-> "healthy",
                                      version |-> agent_version,
                                      last_updated |-> ReadAt(d, 2)])
        /\ Elapse(d, 2)
        /\ calls' = [calls EXCEPT ![c] =
               IF wf
               THEN Merge(Merge(@, [write_faults |-> call.write_faults + 1]),
                          RaiseUpdate(call, "firestore write failed"))
               ELSE Merge(@, [pc |-> "done"])]
        /\ running' = NoRef
        /\ UNCHANGED <<source_changes, linear_source, projects_col, embeddings_col,
                       decisions_col, projects_cache, cache_time, lists, ev, snapshot>>

\* EmbeddingService.embed_project: the text embedded for a project.
ProjectText(project) ==
    IF Truthy(project.description)
    THEN project.name \o ": " \o project.description
    ELSE project.name

RECURSIVE NeedingEmbeddings_all(_, _)
\* NeedingEmbeddings that collects every project.
NeedingEmbeddings_all(projects, i) ==
    IF i > Len(projects) THEN <<>>
    ELSE <<i>> \o NeedingEmbeddings_all(projects, i + 1)

\* _ensure_project_embeddings line 206: positions of the projects lacking an embedding.
RECURSIVE NeedingEmbeddings(_, _)
NeedingEmbeddings(projects, i) ==
    IF i > Len(projects) THEN <<>>
    ELSE (IF HasEmbedding(projects[i]) THEN <<>> ELSE <<i>>)
         \o NeedingEmbeddings(projects, i + 1)

\* get_embedding returned embedding to its caller.  For a direct call that is
\* the end; in evaluate_task the task embedding is followed by
\* _ensure_project_embeddings, which embeds the projects lacking an embedding
\* one after the other and then writes them back.
EmbeddingUpdate(call, embedding) ==
    IF call.emb_for = "caller"
    THEN [pc |-> "done", result |-> embedding]
    ELSE IF call.emb_for = "task"
    THEN LET needing == NeedingEmbeddings(lists[call.projects], 1)
         IN  IF Len(needing) = 0
             THEN [task_embedding |-> embedding, pc |-> "reason"]
             ELSE [task_embedding |-> embedding, needing |-> needing, next |-> 1,
                   pc |-> "emb_lookup", emb_for |-> "project", attempts |-> 0,
                   emb_text |-> ProjectText(lists[call.projects][needing[1]])]
    ELSE IF call.next < Len(call.needing)
         THEN [next |-> call.next + 1, pc |-> "emb_lookup", attempts |-> 0,
               emb_text |-> ProjectText(lists[call.projects][call.needing[call.next + 1]])]
         ELSE [pc |-> "cache_embeddings"]

\* agent.py line 226: project.embedding = embedding.tolist(), on the shared list object.
ListsAfterEmbedding(call, embedding) ==
    IF call.emb_for = "project"
    THEN [lists EXCEPT ![call.projects][call.needing[call.next]].embedding = embedding]
    ELSE lists

\* RunningAfterEmbedding for an event loop that takes the coroutine off after
\* every get_embedding.
RunningAfterEmbedding_yields(c) == NoRef

\* The coroutine the loop runs after get_embedding returned in call c.
RunningAfterEmbedding(c) == IF calls[c].emb_for = "caller" THEN NoRef ELSE c

\* EmbeddingService.get_embedding lines 187-191: the cache is in use and the
\* cache read fails.
EmbCacheReadFails(c) ==
    LET call == calls[c]
    IN  /\ running = c
        /\ call.pc = "emb_lookup"
        /\ call.use_cache
        /\ CanFault
        /\ faults' = faults + 1
        /\ calls' = [calls EXCEPT ![c] = Merge(Merge(@,
               [read_faults |-> call.read_faults + 1]),
               RaiseUpdate(call, "firestore read failed"))]
        /\ running' = NoRef
        /\ UNCHANGED <<now, ticks, source_changes, linear_source, projects_col,
                       embeddings_col, decisions_col, agent_state, projects_cache,
                       cache_time, lists, ev, snapshot>>

\* EmbeddingService.get_embedding lines 187-191: the cached vector is returned.
\* The clock is read for the age of the document (firestore_client.py 201),
\* after the blocking read of line 189.
EmbCacheHit(c) ==
    LET call == calls[c]
    IN  /\ running = c
        /\ call.pc = "emb_lookup"
        /\ call.use_cache
        /\ \E d \in RequestDelays(1) :
            \E cached \in {get_embedding(embeddings_col, call.emb_text, ReadAt(d, 1))} :
                /\ cached # NoVector
                /\ calls' = [calls EXCEPT ![c] = Merge(Merge(@,
                       [entry_at |-> embeddings_col[EmbeddingKey(call.emb_text)].created_at,
                        lookup_at |-> ReadAt(d, 1),
                        hits |-> call.hits \cup
                            {[tier |-> "embeddings",
                              age |-> ReadAt(d, 1)
                                      - embeddings_col[EmbeddingKey(call.emb_text)].created_at,
                              ttl |-> embeddings_col[EmbeddingKey(call.emb_text)].ttl_seconds]}]),
                       EmbeddingUpdate(call, cached))]
                /\ lists' = ListsAfterEmbedding(call, cached)
                /\ Elapse(d, 1)
        /\ running' = RunningAfterEmbedding(c)
        /\ UNCHANGED <<faults, source_changes, linear_source, projects_col,
                       embeddings_col, decisions_col, agent_state, projects_cache,
                       cache_time, ev, snapshot>>

\* `not text or not text.strip()`
IsBlank(text) == Len(Strip(text)) = 0

\* The vector of an embedding model that answers the same text with the same
\* vector: texts on Slack, on billing, and the others.
ModelVector(text) ==
    IF IsBlank(text) THEN zeros
    ELSE IF Contains(Lower(text), "slack") THEN <<1, 0>>
    ELSE IF Contains(Lower(text), "billing") THEN <<0, 1>>
    ELSE <<4, 3>>

\* The texts that are embedded in the behaviours.
EmbeddedTexts ==
    TaskDescriptions \cup EmbeddingTexts \cup BatchTexts
    \cup UNION {{ProjectText(catalog[i]) : i \in 1..Len(catalog)} : catalog \in Catalogs}

\* IsBlank and ModelVector of the texts that are embedded, evaluated once.
ProviderTable ==
    Tabulated([text \in EmbeddedTexts |->
                  [blank |-> IsBlank(text), vector |-> ModelVector(text)]])

\* IsBlank(text), looked up where tabulated.
Blank(text) ==
    IF text \in DOMAIN ProviderTable THEN ProviderTable[text].blank ELSE IsBlank(text)

\* ModelVector(text), looked up where tabulated.
Answer(text) ==
    IF text \in DOMAIN ProviderTable THEN ProviderTable[text].vector
    ELSE ModelVector(text)

\* What VertexAIClient.embed_text returns for a text when the provider
\* answers: zeros for a blank text (vertex_ai.py 54-56); otherwise the vector
\* of the model, or zeros when the provider returns no embeddings (68-70).
Answers(text) == IF Blank(text) THEN {zeros} ELSE {Answer(text), zeros}

\* The provider returned no embeddings for a text that is not blank
\* (vertex_ai.py 68-70); counted among the failing requests of a behaviour.
NoEmbeddings(text, embedding) == ~Blank(text) /\ embedding = zeros

\* EmbeddingService.get_embedding lines 187-194: the cache is not used or
\* holds nothing usable, and embed_text is called.  With the cache in use the
\* clock is read after the blocking read (firestore_client.py 189, 201).
\* embed_text sends a request to the provider unless the text is blank
\* (vertex_ai.py 54-56).
EmbCacheMiss(c) ==
    LET call == calls[c]
    IN  /\ running = c
        /\ call.pc = "emb_lookup"
        /\ \E d \in RequestDelays(IF call.use_cache THEN 1 ELSE 0) :
            /\ call.use_cache =>
                   get_embedding(embeddings_col, call.emb_text, ReadAt(d, 1)) = NoVector
            /\ calls' = [calls EXCEPT ![c] = Merge(@,
                   [pc |-> "embed_attempt", attempts |-> 0,
                    lookup_at |-> ReadAt(d, Len(d)),
                    provider_calls |-> call.provider_calls
                                       + (IF Blank(call.emb_text) THEN 0 ELSE 1)])]
            /\ Elapse(d, Len(d))
        /\ UNCHANGED <<faults, source_changes, linear_source, projects_col,
                       embeddings_col, decisions_col, agent_state, projects_cache,
                       cache_time, lists, running, ev, snapshot>>

\* VertexAIClient.embed_text returns embedding (zeros for a blank text; for
\* another text the provider's vector, or zeros when the provider returned no
\* embeddings) and get_embedding lines 197-200 store it, with the cache in
\* use, and return it; store_fails: the write to the embedding cache fails.
\* The clock is read for created_at (firestore_client.py 171), after the
\* request to the provider.
EmbedOK(c, embedding, store_fails) ==
    LET call == calls[c]
    IN  /\ running = c
        /\ call.pc = "embed_attempt"
        /\ IF Blank(call.emb_text) THEN embedding = zeros
                                     ELSE embedding \in ProviderVectors \cup {zeros}
        /\ store_fails => call.use_cache
        /\ faults' = IF store_fails \/ NoEmbeddings(call.emb_text, embedding)
                      THEN faults + 1 ELSE faults
        /\ \E d \in RequestDelays(IF call.use_cache THEN 1 ELSE 0) :
            /\ (store_fails \/ NoEmbeddings(call.emb_text, embedding)) => CanFaultWith(d)
            /\ embeddings_col' =
                   IF store_fails \/ ~call.use_cache THEN embeddings_col
                   ELSE store_embedding(embeddings_col, call.emb_text, embedding,
                                        ReadAt(d, 1))
            /\ calls' = [calls EXCEPT ![c] =
                   IF store_fails
                   THEN Merge(Merge(@, [write_faults |-> call.write_faults + 1]),
                              RaiseUpdate(call, "firestore write failed"))
                   ELSE Merge(Merge(@, [entry_at |-> IF call.use_cache THEN ReadAt(d, 1)
                                                     ELSE NoTime]),
                              EmbeddingUpdate(call, embedding))]
            /\ Elapse(d, Len(d))
        /\ lists' = IF store_fails THEN lists ELSE ListsAfterEmbedding(call, embedding)
        /\ running' = IF store_fails THEN NoRef ELSE RunningAfterEmbedding(c)
        /\ UNCHANGED <<source_changes, linear_source, projects_col,
                       decisions_col, agent_state, projects_cache, cache_time, ev, snapshot>>

\* VertexAIClient.embed_text under @retry: the provider request fails; after
\* MAX_ATTEMPTS failed attempts the RetryError leaves embed_text, otherwise the
\* coroutine sleeps before the next attempt.
EmbedFails(c) ==
    LET call == calls[c]
    IN  /\ running = c
        /\ call.pc = "embed_attempt"
        /\ ~Blank(call.emb_text)
        /\ call.attempts = 0 => CanFault
        /\ faults' = IF call.attempts = 0 THEN faults + 1 ELSE faults
        /\ calls' = [calls EXCEPT ![c] = Merge(Merge(@,
               [source_faults |-> call.source_faults + 1]),
               FailedAttempt(call, "embed_sleep"))]
        /\ running' = NoRef
        /\ UNCHANGED <<now, ticks, source_changes, linear_source, projects_col,
                       embeddings_col, decisions_col, agent_state, projects_cache,
                       cache_time, lists, ev, snapshot>>

\* The backoff sleep of embed_text ends: the next attempt sends its request to
\* the provider.
EmbedRetry(c) ==
    LET call == calls[c]
    IN  /\ running = NoRef
        /\ call.pc = "embed_sleep"
        /\ \E wake \in {WakeAt(call)} :
            /\ now' = wake
            /\ calls' = [calls EXCEPT ![c] = Merge(@,
                   [pc |-> "embed_attempt", failed_at |-> NoTime,
                    provider_calls |-> call.provider_calls + 1])]
        /\ running' = c
        /\ UNCHANGED <<ticks, faults, source_changes, linear_source, projects_col,
                       embeddings_col, decisions_col, agent_state, projects_cache,
                       cache_time, lists, ev, snapshot>>

\* _ensure_project_embeddings line 229: cache_projects(projects_needing_embeddings).
\* The clock is read for cached_at (firestore_client.py 55), after the
\* blocking write of the last store_embedding.
CacheEmbeddings(c, write_fails) ==
    LET call == calls[c]
        updated == [k \in 1..Len(call.needing) |-> lists[call.projects][call.needing[k]]]
    IN  /\ running = c
        /\ call.pc = "cache_embeddings"
        /\ faults' = IF write_fails THEN faults + 1 ELSE faults
        /\ \E d \in RequestDelays(1) :
            /\ write_fails => CanFaultWith(d)
            /\ projects_col' = IF write_fails THEN projects_col
                               ELSE cache_projects(projects_col, updated, ReadAt(d, 1))
            /\ Elapse(d, 1)
        /\ calls' = [calls EXCEPT ![c] =
               IF write_fails
               THEN Merge(Merge(@, [write_faults |-> call.write_faults + 1]),
                          RaiseUpdate(call, "firestore write failed"))
               ELSE Merge(@, [pc |-> "reason"])]
        /\ running' = IF write_fails THEN NoRef ELSE c
        /\ UNCHANGED <<source_changes, linear_source, embeddings_col,
                       decisions_col, agent_state, projects_cache, cache_time, lists, ev, snapshot>>

\* evaluate_task lines 111-126: store_decision of the decision made, then
\* return.  The clock is read for created_at of the Decision (decision.py 41)
\* and for created_at of the stored document (firestore_client.py 237).
StoreDecision(c, decision, d) ==
    LET call == calls[c]
    IN  /\ running = c
        /\ call.pc = "reason"
        /\ \E write_fails \in BOOLEAN :
            /\ write_fails => CanFaultWith(d)
            /\ faults' = IF write_fails THEN faults + 1 ELSE faults
            /\ decisions_col' =
                   IF write_fails THEN decisions_col
                   ELSE Append(decisions_col,
                               DecisionDoc(decision, call.text, ReadAt(d, 2)))
            /\ Elapse(d, 2)
            /\ calls' = [calls EXCEPT ![c] =
                   IF write_fails
                   THEN Merge(Merge(@, [decided |-> decision,
                                        write_faults |-> call.write_faults + 1]),
                              RaiseUpdate(call, "firestore write failed"))
                   ELSE Merge(@, [decided |-> decision, pc |-> "done", result |-> decision])]
            /\ running' = NoRef
            /\ UNCHANGED <<source_changes, linear_source, projects_col,
                           embeddings_col, agent_state, projects_cache, cache_time, lists, ev, snapshot>>

\* evaluate_task lines 104-110: ReasoningEngine.evaluate raises.
EvaluateRaises(c) ==
    /\ running = c
    /\ calls[c].pc = "reason"
    /\ calls' = [calls EXCEPT ![c] = Merge(@, RaiseUpdate(calls[c], "shapes not aligned"))]
    /\ running' = NoRef
    /\ UNCHANGED <<now, ticks, faults, source_changes, linear_source, projects_col,
                   embeddings_col, decisions_col, agent_state, projects_cache,
                   cache_time, lists, ev, snapshot>>

\* The fields of a project that ReasoningEngine.evaluate reads.
EvaluatedFields(project) ==
    [id |-> project.id, name |-> project.name, description |-> project.description,
     embedding |-> project.embedding]

\* The projects of the catalogs with the embeddings embed_text can return for
\* them, in the fields ReasoningEngine.evaluate reads.
EmbeddedProjects ==
    UNION {UNION {{[id |-> catalog[i].id, name |-> catalog[i].name,
                    description |-> catalog[i].description, embedding |-> e] :
                       e \in Answers(ProjectText(catalog[i]))} :
                  i \in 1..Len(catalog)} : catalog \in Catalogs}

\* The lists of projects the caches can hold: none, one or two of the
\* projects of the catalogs, in either order.
EvaluatedLists ==
    {<<>>} \cup {<<p>> : p \in EmbeddedProjects}
    \cup {<<p, q>> : p \in EmbeddedProjects, q \in EmbeddedProjects}

\* The inputs of ReasoningEngine.evaluate when the provider answers as the
\* model of the embedding does, or with no embeddings: a task description
\* with its embedding, and a list of projects with theirs.
EvaluatedInputs ==
    UNION {{<<d, e, projects>> :
               e \in Answers(d),
               projects \in {l \in EvaluatedLists :
                                Len(l) = 2 => l[1].id # l[2].id}} :
           d \in TaskDescriptions}

\* evaluate on the inputs that occur in the behaviours, evaluated once.
EvaluateTable ==
    Tabulated([input \in EvaluatedInputs |-> evaluate(input[1], input[2], input[3])])

\* evaluate(task_description, task_embedding, existing_projects), looked up
\* in EvaluateTable.
Decided(task_description, task_embedding, existing_projects) ==
    LET input == <<task_description, task_embedding,
                   [i \in 1..Len(existing_projects) |->
                       EvaluatedFields(existing_projects[i])]>>
    IN  EvaluateTable[input]

\* evaluate_task lines 104-126: ReasoningEngine.evaluate, store_decision, return.
Reason(c, d) ==
    /\ calls[c].pc = "reason"
    /\ \E decision \in {Decided(calls[c].text, calls[c].task_embedding,
                                 lists[calls[c].projects])} :
           IF decision = RaisedInEvaluate THEN EvaluateRaises(c)
           ELSE StoreDecision(c, decision, d)

\* EmbeddingService.get_embeddings(texts, use_cache=use_cache) begins.
StartGetEmbeddings(c, a, texts, use_cache) ==
    /\ running = NoRef
    /\ NextToStart(c)
    /\ calls' = [calls EXCEPT ![c] = Merge(@,
           [pc |-> "batch_lookup", kind |-> "get_embeddings", agent |-> a,
            texts |-> texts, use_cache |-> use_cache])]
    /\ running' = c
    /\ UNCHANGED <<now, ticks, faults, source_changes, linear_source, projects_col,
                   embeddings_col, decisions_col, agent_state, projects_cache,
                   cache_time, lists, ev, snapshot>>

\* get_embeddings lines 224-229: what the cache gives for text i when the
\* clock is read with delays d; nothing when the cache is not used.
CachedAt(col, texts, use_cache, d, i) ==
    IF use_cache THEN get_embedding(col, texts[i], ReadAt(d, i)) ELSE NoVector

RECURSIVE MissedIndices(_, _, _, _, _)
\* get_embeddings lines 224-234: the positions of the texts without a usable
\* cached vector when the clock is read with delays d, in input order
\* (cache_indices, counted from 1).
MissedIndices(col, texts, use_cache, d, i) ==
    IF i > Len(texts) THEN <<>>
    ELSE (IF CachedAt(col, texts, use_cache, d, i) = NoVector THEN <<i>> ELSE <<>>)
         \o MissedIndices(col, texts, use_cache, d, i + 1)

\* get_embeddings lines 219-234: a cache read fails.
BatchReadFails(c) ==
    LET call == calls[c]
    IN  /\ running = c
        /\ call.pc = "batch_lookup"
        /\ call.use_cache
        /\ Len(call.texts) > 0
        /\ CanFault
        /\ faults' = faults + 1
        /\ calls' = [calls EXCEPT ![c] = Merge(Merge(@,
               [read_faults |-> call.read_faults + 1]),
               RaiseUpdate(call, "firestore read failed"))]
        /\ running' = NoRef
        /\ UNCHANGED <<now, ticks, source_changes, linear_source, projects_col,
                       embeddings_col, decisions_col, agent_state, projects_cache,
                       cache_time, lists, ev, snapshot>>

\* get_embeddings lines 219-237: with the cache in use it is read for each
\* text, the clock being read after each blocking read; the cached vectors
\* are placed, the others get the placeholder None and are collected in
\* texts_to_embed.  With nothing to embed the list is returned (line 255).
BatchLookup(c) ==
    LET call == calls[c]
    IN  /\ running = c
        /\ call.pc = "batch_lookup"
        /\ \E d \in RequestDelays(IF call.use_cache THEN Len(call.texts) ELSE 0) :
            LET cache_indices ==
                    MissedIndices(embeddings_col, call.texts, call.use_cache, d, 1)
                embeddings == [i \in 1..Len(call.texts) |->
                                  CachedAt(embeddings_col, call.texts, call.use_cache, d, i)]
                texts_to_embed ==
                    [k \in 1..Len(cache_indices) |-> call.texts[cache_indices[k]]]
            IN  /\ calls' = [calls EXCEPT ![c] = Merge(Merge(@,
                       [embeddings |-> embeddings, texts_to_embed |-> texts_to_embed,
                        cache_indices |-> cache_indices,
                        cached_at_scan |->
                            [i \in 1..Len(call.texts) |-> embeddings[i] # NoVector]]),
                       IF Len(texts_to_embed) = 0
                       THEN [pc |-> "done", result |-> embeddings]
                       ELSE [pc |-> "batch_attempt", attempts |-> 0])]
                /\ running' = IF Len(texts_to_embed) = 0 THEN NoRef ELSE c
                /\ Elapse(d, Len(d))
        /\ UNCHANGED <<faults, source_changes, linear_source, projects_col,
                       embeddings_col, decisions_col, agent_state, projects_cache,
                       cache_time, lists, ev, snapshot>>

\* embed_texts line 112: the texts that are not blank.
valid_texts(texts) == SelectSeq(texts, LAMBDA t : ~Blank(t))

RECURSIVE Batches(_)
\* embed_texts lines 122-123: the slices of VERTEX_AI_BATCH_SIZE texts sent to the provider.
Batches(texts) ==
    IF Len(texts) = 0 THEN <<>>
    ELSE <<SubSeq(texts, 1, Min(VERTEX_AI_BATCH_SIZE, Len(texts)))>>
         \o Batches(SubSeq(texts, Min(VERTEX_AI_BATCH_SIZE, Len(texts)) + 1, Len(texts)))

\* The requests one attempt of embed_texts sends to the provider when none
\* fails: one for each slice of the texts that are not blank.
Requests(texts) ==
    IF Len(valid_texts(texts)) = 0 THEN <<>> ELSE Batches(valid_texts(texts))

RECURSIVE Flatten(_)
\* all_embeddings.extend(batch_arrays), over the batches in order.
Flatten(seqs) == IF Len(seqs) = 0 THEN <<>> ELSE seqs[1] \o Flatten(Tail(seqs))

\* The numbers of embeddings the provider can return for the requests of one
\* attempt of embed_texts: for each slice, from none to one for each text.
Returned(texts) ==
    {n \in [1..Len(Requests(texts)) -> 0..MaxTexts] :
        \A b \in 1..Len(Requests(texts)) : n[b] <= Len(Requests(texts)[b])}

\* VertexAIClient.embed_texts when every provider request succeeds and the
\* provider returns returned[b] embeddings for slice b: zeros for each text
\* when all are blank, else one vector for each embedding returned (lines
\* 133-139), which the provider computed for the texts of the slice in order.
embed_texts(texts, returned) ==
    IF Len(texts) = 0 THEN <<>>
    ELSE IF Len(valid_texts(texts)) = 0 THEN [i \in 1..Len(texts) |-> zeros]
    ELSE Flatten([b \in 1..Len(Requests(texts)) |->
                    [k \in 1..returned[b] |-> Answer(Requests(texts)[b][k])]])

RECURSIVE StoreNew(_, _, _, _, _)
\* get_embeddings lines 248-253: store_embedding(texts_to_embed[i], embedding)
\* for the first n new embeddings.
StoreNew(col, texts_to_embed, new_embeddings, d, n) ==
    IF n = 0 THEN col
    ELSE store_embedding(StoreNew(col, texts_to_embed, new_embeddings, d, n - 1),
                         texts_to_embed[n], new_embeddings[n], ReadAt(d, n))

\* get_embeddings lines 248-250: embeddings[cache_indices[i]] = new_embeddings[i].
FillResults(embeddings, cache_indices, new_embeddings) ==
    [j \in 1..Len(embeddings) |->
        IF \E i \in 1..Len(new_embeddings) : cache_indices[i] = j
        THEN new_embeddings[CHOOSE i \in 1..Len(new_embeddings) : cache_indices[i] = j]
        ELSE embeddings[j]]

\* The number of store_embedding calls that succeed: none when the cache is
\* not used.
Stored(new_embeddings, use_cache, fail_at) ==
    IF ~use_cache THEN 0
    ELSE IF fail_at > 0 THEN fail_at - 1
    ELSE Len(new_embeddings)

\* get_embeddings lines 245-255 with embed_texts answering new_embeddings: the
\* results are placed and, with the cache in use, stored; fail_at > 0: that
\* store_embedding raises.  The clock is read for created_at of each document
\* (firestore_client.py 171), after the request to the provider or the
\* blocking write before it.
BatchStore(c, new_embeddings, fail_at) ==
    LET call == calls[c]
        sent == Requests(call.texts_to_embed)
    IN  /\ running = c
        /\ call.pc = "batch_attempt"
        /\ fail_at <= Len(new_embeddings)
        /\ fail_at > 0 => call.use_cache
        /\ faults' = IF fail_at > 0 THEN faults + 1 ELSE faults
        /\ \E d \in RequestDelays(Stored(new_embeddings, call.use_cache, fail_at)) :
            /\ fail_at > 0 => CanFaultWith(d)
            /\ embeddings_col' =
                   StoreNew(embeddings_col, call.texts_to_embed, new_embeddings, d,
                            Stored(new_embeddings, call.use_cache, fail_at))
            /\ Elapse(d, Len(d))
        /\ calls' = [calls EXCEPT ![c] = Merge(Merge(@,
               [batches |-> sent, provider_calls |-> call.provider_calls + Len(sent)]),
               IF fail_at > 0
               THEN RaiseUpdate(call, "firestore write failed")
                    @@ [write_faults |-> call.write_faults + 1]
               ELSE [pc |-> "done",
                     result |-> FillResults(call.embeddings, call.cache_indices,
                                            new_embeddings)])]
        /\ running' = NoRef
        /\ UNCHANGED <<source_changes, linear_source, projects_col,
                       decisions_col, agent_state, projects_cache, cache_time, lists, ev, snapshot>>

\* get_embeddings lines 245-255: embed_texts returns, the provider having
\* returned returned[b] embeddings for slice b, and the results are stored.
BatchEmbedOK(c, returned, fail_at) ==
    /\ returned \in Returned(calls[c].texts_to_embed)
    /\ BatchStore(c, embed_texts(calls[c].texts_to_embed, returned), fail_at)

\* VertexAIClient.embed_texts under @retry: the request for slice k fails,
\* after the requests for the slices before it; after MAX_ATTEMPTS failed
\* attempts the RetryError leaves embed_texts and get_embeddings, otherwise
\* the coroutine sleeps before the next attempt.
BatchEmbedFails(c, k) ==
    LET call == calls[c]
    IN  /\ running = c
        /\ call.pc = "batch_attempt"
        /\ k \in 1..Len(Requests(call.texts_to_embed))
        /\ call.attempts = 0 => CanFault
        /\ faults' = IF call.attempts = 0 THEN faults + 1 ELSE faults
        /\ calls' = [calls EXCEPT ![c] = Merge(Merge(@,
               [source_faults |-> call.source_faults + 1,
                provider_calls |-> call.provider_calls + k]),
               FailedAttempt(call, "batch_sleep"))]
        /\ running' = NoRef
        /\ UNCHANGED <<now, ticks, source_changes, linear_source, projects_col,
                       embeddings_col, decisions_col, agent_state, projects_cache,
                       cache_time, lists, ev, snapshot>>

\* The backoff sleep of embed_texts ends: the next attempt begins.
BatchRetry(c) ==
    LET call == calls[c]
    IN  /\ running = NoRef
        /\ call.pc = "batch_sleep"
        /\ \E wake \in {WakeAt(call)} :
            /\ now' = wake
            /\ calls' = [calls EXCEPT ![c] = Merge(@,
                   [pc |-> "batch_attempt", failed_at |-> NoTime])]
        /\ running' = c
        /\ UNCHANGED <<ticks, faults, source_changes, linear_source, projects_col,
                       embeddings_col, decisions_col, agent_state, projects_cache,
                       cache_time, lists, ev, snapshot>>

\* Time passes while no coroutine holds the event loop.
Tick(d) ==
    /\ running = NoRef
    /\ ticks < MaxTicks
    /\ Events < MaxEvents
    /\ ticks' = ticks + 1
    /\ now' = now + d
    /\ UNCHANGED <<faults, source_changes, linear_source, projects_col, embeddings_col,
                   decisions_col, agent_state, projects_cache, cache_time, lists,
                   calls, running, ev, snapshot>>

\* The catalog at the source changes, as seen between two steps of the event loop.
SourceChange(catalog) ==
    /\ running = NoRef
    /\ source_changes < MaxSourceChanges
    /\ Events < MaxEvents
    /\ catalog # linear_source
    /\ source_changes' = source_changes + 1
    /\ linear_source' = catalog
    /\ UNCHANGED <<now, ticks, faults, projects_col, embeddings_col, decisions_col,
                   agent_state, projects_cache, cache_time, lists, calls, running, ev, snapshot>>

\* The steps of get_or_refresh_projects, with the delays between the clock
\* reads of a step.
ProjectSteps ==
    \/ \E c \in Calls : GetProjectsFromMemory(c)
    \/ \E c \in Calls, d \in StepDelays(2) : GetProjectsReadFails(c, d)
    \/ \E c \in Calls, d \in StepDelays(3) : GetProjectsFromStore(c, d)
    \/ \E c \in Calls, d \in StepDelays(2) : GetProjectsFetch(c, d)
    \/ \E c \in Calls : LinearFetchFails(c)
    \/ \E c \in Calls : LinearFetchRetry(c)
    \/ \E c \in Calls : LinearFetchAnswered(c)
    \/ \E c \in Calls, wf \in {"none", "cache_projects", "update_agent_state"},
          d \in RequestDelays(4) : CacheFetchedProjects(c, wf, d)

\* The steps of EmbeddingService.get_embedding around the provider's answer.
EmbeddingSteps ==
    \/ \E c \in Calls : EmbCacheReadFails(c)
    \/ \E c \in Calls : EmbCacheHit(c)
    \/ \E c \in Calls : EmbCacheMiss(c)
    \/ \E c \in Calls : EmbedFails(c)
    \/ \E c \in Calls : EmbedRetry(c)

\* VertexAIClient.embed_text answered by a provider that gives every text one
\* vector, or no embeddings.
EmbedAnswered(c) ==
    /\ calls[c].pc = "embed_attempt"
    /\ \E embedding \in Answers(calls[c].emb_text), sf \in BOOLEAN :
           EmbedOK(c, embedding, sf)

\* The steps of evaluate_task after the task embedding.
PipelineSteps ==
    \/ \E c \in Calls, wf \in BOOLEAN : CacheEmbeddings(c, wf)
    \/ \E c \in Calls, d \in RequestDelays(2) : Reason(c, d)

\* The agent serving evaluate_task calls (POST /evaluate-task of main.py), with an
\* embedding model that answers by ModelVector or with no embeddings, and a
\* catalog that changes at the source.
Next ==
    \/ \E c \in Calls, a \in Agents, d \in TaskDescriptions : StartEvaluate(c, a, d)
    \/ ProjectSteps
    \/ EmbeddingSteps
    \/ \E c \in Calls : EmbedAnswered(c)
    \/ PipelineSteps
    \/ \E d \in ProjectTickSteps : Tick(d)
    \/ \E catalog \in Catalogs : SourceChange(catalog)

Spec == Init /\ [][Next]_vars

\* The project cache alone: get_or_refresh_projects calls.
NextProjects ==
    \/ \E c \in Calls, a \in Agents, force \in BOOLEAN : StartRefresh(c, a, force)
    \/ ProjectSteps
    \/ \E d \in ProjectTickSteps : Tick(d)
    \/ \E catalog \in Catalogs : SourceChange(catalog)

SpecProjects == Init /\ [][NextProjects]_vars

\* The embedding cache alone: EmbeddingService.get_embedding calls, with a
\* provider free to answer any vector.
NextEmbedding ==
    \/ \E c \in Calls, a \in Agents, t \in EmbeddingTexts, use_cache \in BOOLEAN :
          StartGetEmbedding(c, a, t, use_cache)
    \/ EmbeddingSteps
    \/ \E c \in Calls, v \in ProviderVectors \cup {zeros}, sf \in BOOLEAN : EmbedOK(c, v, sf)
    \/ \E d \in EmbeddingTickSteps : Tick(d)

SpecEmbedding == Init /\ [][NextEmbedding]_vars

\* The steps of EmbeddingService.get_embeddings.
BatchSteps ==
    \/ \E c \in Calls : BatchReadFails(c)
    \/ \E c \in Calls : BatchLookup(c)
    \/ \E c \in Calls, fail_at \in 0..MaxTexts :
          \E returned \in Returned(calls[c].texts_to_embed) :
              BatchEmbedOK(c, returned, fail_at)
    \/ \E c \in Calls, k \in 1..MaxTexts : BatchEmbedFails(c, k)
    \/ \E c \in Calls : BatchRetry(c)

\* The embedding cache under EmbeddingService.get_embeddings calls, with an
\* embedding model that answers by ModelVector and may return fewer
\* embeddings than a request has texts.
NextBatch ==
    \/ \E c \in Calls, a \in Agents, texts \in TextLists, use_cache \in BOOLEAN :
          StartGetEmbeddings(c, a, texts, use_cache)
    \/ BatchSteps
    \/ \E d \in EmbeddingTickSteps : Tick(d)

SpecBatch == Init /\ [][NextBatch]_vars

\* A step of the coroutine of call c that does not wait for the embedding
\* provider: the steps of get_or_refresh_projects, whose request to the
\* catalog source ends by the timeout of linear_mcp.py line 80, the lookup of
\* the embedding cache, the end of a backoff sleep, the write-back and the
\* scoring.
CallStep(c) ==
    \/ GetProjectsFromMemory(c)
    \/ \E d \in StepDelays(2) : GetProjectsReadFails(c, d)
    \/ \E d \in StepDelays(3) : GetProjectsFromStore(c, d)
    \/ \E d \in StepDelays(2) : GetProjectsFetch(c, d)
    \/ LinearFetchFails(c)
    \/ LinearFetchRetry(c)
    \/ LinearFetchAnswered(c)
    \/ \E wf \in {"none", "cache_projects", "update_agent_state"}, d \in RequestDelays(4) :
          CacheFetchedProjects(c, wf, d)
    \/ EmbCacheReadFails(c)
    \/ EmbCacheHit(c)
    \/ EmbCacheMiss(c)
    \/ EmbedRetry(c)
    \/ \E wf \in BOOLEAN : CacheEmbeddings(c, wf)
    \/ \E d \in RequestDelays(2) : Reason(c, d)

\* The agent serving evaluate_task calls with one catalog at the source.
NextLive ==
    \/ \E c \in Calls, a \in Agents, d \in TaskDescriptions : StartEvaluate(c, a, d)
    \/ ProjectSteps
    \/ EmbeddingSteps
    \/ \E c \in Calls : EmbedAnswered(c)
    \/ PipelineSteps
    \/ \E d \in ProjectTickSteps : Tick(d)

\* NextLive under an event loop that runs every coroutine that can go on, with
\* a store and a catalog source that answer or fail every request.  The
\* request to the embedding provider (vertex_ai.py line 66) is a synchronous
\* call without a timeout: nothing makes the provider answer, and no fairness
\* is assumed of EmbedAnswered and EmbedFails.
SpecLive == Init /\ [][NextLive]_vars /\ \A c \in Calls : WF_vars(CallStep(c))

\* Task embeddings and project embeddings given to ReasoningEngine.evaluate.
EvalVectors == ProviderVectors \cup {zeros}

\* Project lists given to ReasoningEngine.evaluate: catalog snapshots whose
\* projects carry embeddings, of none, one, two and four projects; in the
\* last, two embeddings have the same direction and different lengths.
EvalProjects ==
    {<<>>}
    \cup {<<[SourceProject("p1", "Slack MCP server integration", None)
               EXCEPT !.embedding = e1]>> : e1 \in EvalVectors}
    \cup {<<[SourceProject("p1", "Slack MCP server integration", None)
               EXCEPT !.embedding = e1],
             [SourceProject("p2", "Billing", "Stripe billing service")
               EXCEPT !.embedding = e2]>> : e1 \in EvalVectors, e2 \in ProviderVectors}
    \cup {<<[SourceProject("p1", "Billing", None) EXCEPT !.embedding = <<4, 3>>],
             [SourceProject("p2", "Slack MCP server integration", None)
               EXCEPT !.embedding = <<1, 0>>],
             [SourceProject("p3", "Billing", "Stripe billing service")
               EXCEPT !.embedding = <<8, 6>>],
             [SourceProject("p4", "Slack MCP server integration", None)
               EXCEPT !.embedding = <<1, 0>>]>>}

\* One call of ReasoningEngine.evaluate: the scores of the description (steps
\* 2 and 3), the matches (step 4), the duplicate score of the best match (step
\* 5), the alignment score (step 6) and the decision of the rules.  ev keeps
\* the inputs, the scores the rules read and the decision returned.
Evaluate(task_description, task_embedding, existing_projects) ==
    /\ ev = <<>>
    /\ \E facts \in {Facts(task_description)},
          matches \in {find_similar_projects(task_embedding, existing_projects)} :
          \E duplicate_s \in {IF Len(matches) > 0
                               THEN duplicate_score(task_description, matches[1].project,
                                                    matches[1].similarity_score)
                               ELSE Zero},
             alignment \in {alignment_score(facts.filter_score,
                                            IF Len(matches) > 0
                                            THEN matches[1].similarity_score ELSE Zero,
                                            facts.clarity_score)} :
              ev' = <<[task_description |-> task_description,
                       task_embedding |-> task_embedding,
                       existing_projects |-> existing_projects,
                       filter_s |-> facts.filter_score,
                       clarity_s |-> facts.clarity_score,
                       matches |-> matches,
                       duplicate_s |-> duplicate_s,
                       alignment |-> alignment,
                       decision |-> apply_rules(task_description, facts, matches,
                                                duplicate_s, alignment)]>>
    /\ UNCHANGED <<now, ticks, faults, source_changes, linear_source, projects_col,
                   embeddings_col, decisions_col, agent_state, projects_cache,
                   cache_time, lists, calls, running, snapshot>>

\* ReasoningEngine.evaluate on its own, over bounded inputs.
NextEvaluate ==
    /\ ev = <<>>
    /\ \E d \in EvalDescriptions, e \in EvalVectors, ps \in EvalProjects : Evaluate(d, e, ps)

SpecEvaluate == Init /\ [][NextEvaluate]_vars

\* Scores given to ReasoningEngine.alignment_score: the ends and the inside of
\* [0, 1] and a value on either side of it: -1.0, 0.0, 0.3, 0.7, 1.0, 2.0.
AlignmentInputs ==
    {FloatNeg(One), Zero, Hundredths[30], Hundredths[70], One, FloatOfInt(2)}

\* The triples of scores given to ReasoningEngine.alignment_score: those of
\* AlignmentInputs, and two whose weighted sum lies within one rounding of
\* the threshold 0.75: (0.75, 0.8333335, 0.5) and (0.9, 0.75, 0.325).
AlignmentTriples ==
    (AlignmentInputs \X AlignmentInputs \X AlignmentInputs)
    \cup {<<Hundredths[75], FloatOfQuotient(8333335, 10000000), Hundredths[50]>>,
          <<Hundredths[90], Hundredths[75], FloatOfQuotient(325, 1000)>>}

\* alignment_score of the triples given to it, evaluated once.
AlignmentTable ==
    Tabulated([t \in AlignmentTriples |-> alignment_score(t[1], t[2], t[3])])

\* One application of ReasoningEngine.alignment_score; two are recorded.
Align(filter_s, similarity_s, clarity_s) ==
    /\ Len(ev) < 2
    /\ ev' = Append(ev, [filter_s |-> filter_s,
                         similarity_s |-> similarity_s,
                         clarity_s |-> clarity_s,
                         alignment |-> AlignmentTable[<<filter_s, similarity_s, clarity_s>>]])
    /\ UNCHANGED <<now, ticks, faults, source_changes, linear_source, projects_col,
                   embeddings_col, decisions_col, agent_state, projects_cache,
                   cache_time, lists, calls, running, snapshot>>

\* ReasoningEngine.alignment_score on its own, over bounded inputs.
NextAlignment == \E t \in AlignmentTriples : Align(t[1], t[2], t[3])

SpecAlignment == Init /\ [][NextAlignment]_vars

\* ------------------------------------------------------------------------
\* Properties
\* ------------------------------------------------------------------------

\* The call is an evaluate_task call that has returned or raised.
EvaluateDone(c) == calls[c].kind = "evaluate_task" /\ calls[c].pc = "done"

\* The retries of the catalog source or of the embedding provider were used up.
RetriesExhausted(c) == calls[c].attempts >= MAX_ATTEMPTS

\* A collaborator failure reached evaluate_task in call c.
Failed(c) ==
    calls[c].read_faults > 0 \/ calls[c].write_faults > 0 \/ RetriesExhausted(c)

\* The message of the failure that reached evaluate_task in call c.
FailureMessage(c) ==
    IF RetriesExhausted(c) THEN "RetryError"
    ELSE IF calls[c].read_faults > 0 THEN "firestore read failed"
    ELSE "firestore write failed"

\* C1: evaluate_task never raises to its caller; when the catalog source, the
\* embedding provider, a cache read or a cache write failed, it returns a
\* Clarify decision with confidence 0.0, the tag "error" and the error message
\* embedded in its reasoning.
C1_EvaluateTaskNeverRaises ==
    \A c \in Calls :
        EvaluateDone(c) =>
            /\ calls[c].raised = None
            /\ Failed(c) =>
                /\ calls[c].result.decision = "clarify"
                /\ calls[c].result.confidence = Zero
                /\ "error" \in calls[c].result.tags
                /\ calls[c].result.reasoning
                       = "Error during evaluation: " \o FailureMessage(c)

\* C1 witness: an evaluate_task call has returned the error decision after the
\* retries of the catalog source or of the embedding provider were used up.
C1_Witness ==
    \E c \in Calls :
        /\ EvaluateDone(c)
        /\ RetriesExhausted(c)
        /\ calls[c].raised = None
        /\ "error" \in calls[c].result.tags

\* The decision type the ordered rules give for the scores of one application of evaluate.
RuleOutcome(r) ==
    IF FloatLess(r.filter_s, CONFIDENCE_FILTER) THEN "filter"
    ELSE IF FloatLess(r.clarity_s, CLARITY_THRESHOLD) THEN "clarify"
    ELSE IF Len(r.matches) > 0 /\ FloatLeq(DUPLICATE_THRESHOLD, r.duplicate_s)
    THEN "consolidate"
    ELSE IF FloatLeq(ALIGNMENT_SCORE_THRESHOLD, r.alignment) THEN "add"
    ELSE "clarify"

\* C2: ReasoningEngine.evaluate returns exactly one of Add, Filter,
\* Consolidate, Clarify, chosen by the first matching rule in the order
\* filter score < 0.40, clarity score < 0.4, top match with duplicate score
\* >= 0.75, alignment score >= 0.75, otherwise Clarify.
C2_FirstMatchingRule ==
    \A i \in 1..Len(ev) :
        /\ ev[i].decision.decision \in {"add", "filter", "consolidate", "clarify"}
        /\ ev[i].decision.decision = RuleOutcome(ev[i])

\* C2 witness: a task below the filter cutoff that is also unclear and a
\* near-duplicate of a project has been decided Filter.
C2_Witness ==
    \E i \in 1..Len(ev) :
        /\ FloatLess(ev[i].filter_s, CONFIDENCE_FILTER)
        /\ FloatLess(ev[i].clarity_s, CLARITY_THRESHOLD)
        /\ Len(ev[i].matches) > 0
        /\ FloatLeq(DUPLICATE_THRESHOLD, ev[i].duplicate_s)
        /\ ev[i].decision.decision = "filter"

\* C3 as claimed: every cache hit (in-process catalog, persistent project
\* tier, embedding cache) is on an entry with now - stored_at < ttl.
C3_HitsYoungerThanTTL ==
    \A c \in Calls : \A h \in calls[c].hits : h.age < h.ttl

\* C4 as claimed: at most one refresh of the project catalog is in flight at any time.
C4_SingleRefreshInFlight ==
    Cardinality({c \in Calls : calls[c].pc \in {"fetch", "fetch_sleep", "fetch_close"}}) <= 1

\* C5 as claimed: an evaluation in which only a persistent-store write failed
\* still returns the decision of the rules, not the error decision.
C5_WriteFailureKeepsDecision ==
    \A c \in Calls :
        (/\ EvaluateDone(c)
         /\ calls[c].write_faults > 0
         /\ calls[c].read_faults = 0
         /\ ~RetriesExhausted(c))
        => /\ calls[c].raised = None
           /\ "error" \notin calls[c].result.tags

\* C6 as claimed: an evaluation in which only a persistent-store read failed
\* proceeds to a normal decision.
C6_ReadFailureIsCacheMiss ==
    \A c \in Calls :
        (/\ EvaluateDone(c)
         /\ calls[c].read_faults > 0
         /\ calls[c].write_faults = 0
         /\ ~RetriesExhausted(c))
        => /\ calls[c].raised = None
           /\ "error" \notin calls[c].result.tags

\* Call c began while the in-process entry was valid: present, with an age
\* below TTL_projects.
BeganWithValidEntry(c) ==
    calls[c].mem_set /\ calls[c].mem_fresh

\* C7 as claimed: a non-forced get_or_refresh_projects call that began while
\* the in-process entry was valid is served from it, with no persistent-store
\* read and no fetch from the catalog source, whatever catalog is cached.
C7_ValidMemoryEntryServed ==
    \A c \in Calls :
        (/\ calls[c].kind = "get_or_refresh_projects"
         /\ ~calls[c].force
         /\ BeganWithValidEntry(c)
         /\ calls[c].pc \notin {"idle", "get_projects"})
        => /\ calls[c].mem_hit
           /\ calls[c].store_reads = 0
           /\ calls[c].fetches = 0

\* The in-process tier of agent a holds entries within TTL_projects.
MemoryHolds(a) ==
    /\ projects_cache[a] # NoRef
    /\ cache_time[a] # NoTime
    /\ Len(lists[projects_cache[a]]) > 0
    /\ now - cache_time[a] < CACHE_TTL_PROJECTS

\* The persistent tier holds entries within TTL_projects at time t.
StoreEntryValid(t) ==
    \E k \in DOMAIN projects_col : t - projects_col[k].cached_at < CACHE_TTL_PROJECTS

\* get_or_refresh_projects has handed its list to its caller in the record call.
ProjectsReturned(call) ==
    IF call.kind = "get_or_refresh_projects"
    THEN call.pc = "done" /\ call.raised = None
    ELSE IF call.kind = "initialize" THEN call.pc = "update_state"
    ELSE call.pc = "emb_lookup"

\* One step of get_or_refresh_projects in call c keeps the contract of C8.
\* The step begins at now and ends at now'; the in-process tier is consulted
\* as the step begins and the persistent tier as the step that sends the
\* request ends.
C8_Step(c) ==
    LET before == calls[c]
        after == calls'[c]
        a == before.agent
    IN  \* the source is contacted only when forced or when no tier holds entries
        /\ (before.pc = "get_projects" /\ after.pc = "fetch")
           => (before.force \/ (~MemoryHolds(a) /\ ~StoreEntryValid(now')))
        \* a forced call contacts the source whatever the tiers hold
        /\ (before.pc = "get_projects" /\ before.force /\ after.pc # "get_projects")
           => after.pc = "fetch"
        \* the fetched catalog is in both tiers, stamped during the step, when
        \* the call returns
        /\ (before.pc = "fetch_close" /\ ProjectsReturned(after))
           => /\ projects_cache'[a] # NoRef
              /\ lists'[projects_cache'[a]] = after.fetched
              /\ cache_time'[a] \in now..now'
              /\ \A i \in 1..Len(after.fetched) :
                    /\ after.fetched[i].id \in DOMAIN projects_col'
                    /\ projects_col'[after.fetched[i].id].cached_at \in now..cache_time'[a]
                    /\ projects_col'[after.fetched[i].id].name = after.fetched[i].name
        \* a call served by the persistent tier fills the in-process tier from
        \* it and does not contact the source
        /\ (before.pc = "get_projects" /\ ~before.store_hit /\ after.store_hit)
           => /\ after.pc # "fetch"
              /\ after.fetches = before.fetches
              /\ projects_cache'[a] # NoRef
              /\ \E t \in now..now' :
                    lists'[projects_cache'[a]] = get_cached_projects(projects_col, t)
              /\ cache_time'[a] \in now..now'

\* C8: get_or_refresh_projects contacts the catalog source only when force is
\* set or neither tier holds entries within TTL_projects; the fetched catalog
\* is then written to the persistent tier and becomes the in-process entry
\* with a fresh timestamp before the call returns; a call served by the
\* persistent tier populates the in-process tier and does not contact the
\* source; a forced call contacts the source even if both tiers are valid.
C8_SourceContactedWhenNeeded == [][\A c \in Calls : C8_Step(c)]_vars

\* C8 witness: a forced call that began while the in-process entry was valid
\* has fetched the catalog from the source and returned it.
C8_Witness ==
    \E c \in Calls :
        /\ calls[c].kind = "get_or_refresh_projects"
        /\ calls[c].force
        /\ BeganWithValidEntry(c)
        /\ calls[c].fetches = 1
        /\ calls[c].pc = "done"
        /\ calls[c].raised = None
        /\ Len(calls[c].fetched) > 0
        /\ StoreEntryValid(now)

\* Direct get_embedding calls c1 and then c2 both returned a vector, c2 began
\* after c1 had returned, the entry c1 used or stored had not expired when c2
\* read the clock for its lookup (firestore_client.py 201-204), and no other
\* call on these texts overlapped them.
SequentialEmbeddingCalls(c1, c2) ==
    /\ c1 # c2
    /\ calls[c1].kind = "get_embedding" /\ calls[c2].kind = "get_embedding"
    /\ calls[c1].pc = "done" /\ calls[c2].pc = "done"
    /\ calls[c1].raised = None /\ calls[c2].raised = None
    /\ c1 \in calls[c2].after
    /\ calls[c1].entry_at # NoTime =>
           calls[c2].lookup_at - calls[c1].entry_at <= CACHE_TTL_EMBEDDINGS
    /\ \A c3 \in Calls \ {c1, c2} :
          \/ calls[c3].pc = "idle"
          \/ c3 \in calls[c1].after
          \/ c2 \in calls[c3].after
          \/ normalize_text(calls[c3].text) # normalize_text(calls[c1].text)

\* C9 as claimed: of two get_embedding calls on texts that differ only in
\* letter case or whitespace, the second is a cache hit on the entry of the
\* first and does not call the embedding provider.
C9_KeyedByNormalizedText ==
    \A c1, c2 \in Calls :
        (/\ SequentialEmbeddingCalls(c1, c2)
         /\ calls[c1].use_cache /\ calls[c2].use_cache
         /\ calls[c1].text # calls[c2].text
         /\ normalize_text(calls[c1].text) = normalize_text(calls[c2].text))
        => /\ calls[c2].provider_calls = 0
        /\ calls[c2].provider_calls = 0
        /\ calls[c2].lookup_at > calls[c2].started_at
        /\ calls[c2].result = calls[c1].result

\* A get_embeddings call that returned its list.
BatchReturned(c) ==
    /\ calls[c].kind = "get_embeddings"
    /\ calls[c].pc = "done"
    /\ calls[c].raised = None

\* C11: the list returned by EmbeddingService.get_embeddings has the length of
\* its input and element i is the embedding of input text i, whatever the mix
\* of cached, uncached and empty texts; the provider receives only texts that
\* missed the cache, at most VERTEX_AI_BATCH_SIZE per request.
C11_BatchAlignedWithInput ==
    \A c \in Calls :
        BatchReturned(c) =>
            /\ Len(calls[c].result) = Len(calls[c].texts)
            /\ \A i \in 1..Len(calls[c].texts) :
                   calls[c].result[i] = ModelVector(calls[c].texts[i])
            /\ \A b \in 1..Len(calls[c].batches) :
                   /\ Len(calls[c].batches[b]) <= VERTEX_AI_BATCH_SIZE
                   /\ \A k \in 1..Len(calls[c].batches[b]) :
                          \E i \in 1..Len(calls[c].texts) :
                              /\ calls[c].texts[i] = calls[c].batches[b][k]
                              /\ ~calls[c].cached_at_scan[i]

\* Positions of the projects of a list that lack an embedding.
Lacking(projects) == {i \in 1..Len(projects) : ~HasEmbedding(projects[i])}

\* Ids of the projects call c collected in projects_needing_embeddings.
NeedingIds(c) ==
    {lists[calls[c].projects][calls[c].needing[k]].id : k \in 1..Len(calls[c].needing)}

\* The step in which evaluate_task call c enters _ensure_project_embeddings:
\* the projects collected are those lacking an embedding, and with none
\* lacking the function returns without a provider call or a write.
EnsureEntry(c) ==
    (/\ running = c
     /\ calls[c].kind = "evaluate_task"
     /\ calls[c].emb_for = "task"
     /\ calls'[c].raised = None /\ calls'[c].pc # "done"
     /\ calls'[c].task_embedding # NoVector)
    => /\ lists' = lists
       /\ projects_col' = projects_col
       /\ IF Lacking(lists[calls[c].projects]) = {}
          THEN /\ calls'[c].pc = "reason"
               /\ calls'[c].provider_calls = calls[c].provider_calls
          ELSE /\ calls'[c].emb_for = "project"
               /\ Range(calls'[c].needing) = Lacking(lists[calls[c].projects])

\* A step of call c inside the loop of _ensure_project_embeddings: the text
\* embedded is that of the next collected project, only that project changes
\* and only in its embedding, and nothing is written to the projects collection.
EnsureLoop(c) ==
    (/\ running = c
     /\ calls[c].kind = "evaluate_task"
     /\ calls[c].emb_for = "project"
     /\ calls[c].pc \in {"emb_lookup", "embed_attempt"})
    => LET ref == calls[c].projects
           at == calls[c].needing[calls[c].next]
       IN  /\ calls[c].emb_text = ProjectText(lists[ref][at])
           /\ projects_col' = projects_col
           /\ \A r \in Calls : r # ref => lists'[r] = lists[r]
           /\ Len(lists'[ref]) = Len(lists[ref])
           /\ \A i \in 1..Len(lists[ref]) :
                  IF i = at
                  THEN [lists'[ref][i] EXCEPT !.embedding = NoVector]
                       = [lists[ref][i] EXCEPT !.embedding = NoVector]
                  ELSE lists'[ref][i] = lists[ref][i]

\* The write-back step of _ensure_project_embeddings in call c: only documents
\* of collected projects change, and on success each holds its new embedding.
EnsureWriteBack(c) ==
    (/\ running = c
     /\ calls[c].kind = "evaluate_task"
     /\ calls[c].pc = "cache_embeddings")
    => /\ lists' = lists
       /\ \A id \in DOMAIN projects_col' :
              (id \notin DOMAIN projects_col \/ projects_col'[id] # projects_col[id])
              => id \in NeedingIds(c)
       /\ calls'[c].pc = "reason" =>
              \A k \in 1..Len(calls[c].needing) :
                  LET project == lists[calls[c].projects][calls[c].needing[k]]
                  IN  /\ project.id \in DOMAIN projects_col'
                      /\ projects_col'[project.id].embedding = project.embedding

\* When _ensure_project_embeddings has returned normally in call c, every
\* project of its list has an embedding.
EnsureDone(c) ==
    (calls'[c].kind = "evaluate_task" /\ calls'[c].pc = "reason")
    => Lacking(lists'[calls'[c].projects]) = {}

\* C12: _ensure_project_embeddings embeds exactly the projects that lacked an
\* embedding, from the name or "name: description"; the other projects keep
\* their embedding and are not written back; only the updated projects are
\* persisted; with no project lacking an embedding there is no provider call
\* and no write; after a normal return every project has an embedding.
C12_EnsureProjectEmbeddings ==
    [][\A c \in Calls :
          EnsureEntry(c) /\ EnsureLoop(c) /\ EnsureWriteBack(c) /\ EnsureDone(c)]_vars

\* _ensure_project_embeddings returned in a call whose list held a project
\* with an embedding and a project without one, and wrote the latter back.
C12_Witness ==
    \E c \in Calls :
        /\ calls[c].kind = "evaluate_task"
        /\ calls[c].pc = "reason"
        /\ Len(lists[calls[c].projects]) = 2
        /\ calls[c].needing = <<2>>
        /\ "p2" \in DOMAIN projects_col
        /\ projects_col["p2"].embedding # NoVector

\* The description of an evaluation has at least 20 characters and an action verb.
ClearEnough(task_description) ==
    /\ Len(task_description) >= 20
    /\ AnyIn(clarity_indicators, Lower(task_description))

\* C13: a task whose embedding has cosine similarity >= 0.95 with the embedding
\* of an existing project, and whose description has at least 20 characters
\* and an action verb, is decided Consolidate with that project as mapped_project.
C13_NearDuplicateConsolidates ==
    \A k \in 1..Len(ev) :
        \A i \in 1..Len(ev[k].existing_projects) :
            LET project == ev[k].existing_projects[i]
            IN  (/\ HasEmbedding(project)
                 /\ FloatLeq(Hundredths[95],
                             cosine_similarity(ev[k].task_embedding, project.embedding))
                 /\ ClearEnough(ev[k].task_description))
                => /\ ev[k].decision.decision = "consolidate"
                   /\ ev[k].decision.mapped_project = project.id

\* The similarity of the task of evaluation r to a project.
SimilarityTo(r, project) == cosine_similarity(r.task_embedding, project.embedding)

\* The projects of evaluation r that carry an embedding similar enough to match.
Matching(r) ==
    {i \in 1..Len(r.existing_projects) :
        /\ HasEmbedding(r.existing_projects[i])
        /\ FloatLeq(SIMILARITY_THRESHOLD_MATCH, SimilarityTo(r, r.existing_projects[i]))}

\* The project of evaluation r with the given id.
ProjectById(r, id) ==
    r.existing_projects[CHOOSE i \in 1..Len(r.existing_projects) :
                            r.existing_projects[i].id = id]

\* C14: a Consolidate decision has the duplicate score of the top match as
\* confidence, the most similar match as mapped_project, and as
\* consolidate_with the ids of the top min(3, number of matches) matches in
\* rank order: non-empty, and beginning with mapped_project.
C14_ConsolidateFields ==
    \A k \in 1..Len(ev) :
        ev[k].decision.decision = "consolidate" =>
            LET r == ev[k]
                with == r.decision.consolidate_with
                mapped == ProjectById(r, r.decision.mapped_project)
            IN  /\ r.decision.mapped_project \in
                       {r.existing_projects[i].id : i \in Matching(r)}
                /\ \A i \in Matching(r) :
                       FloatLeq(SimilarityTo(r, r.existing_projects[i]),
                                SimilarityTo(r, mapped))
                /\ r.decision.confidence
                       = duplicate_score(r.task_description, mapped, SimilarityTo(r, mapped))
                /\ Len(with) = Min(3, Cardinality(Matching(r)))
                /\ Len(with) > 0
                /\ with[1] = r.decision.mapped_project
                /\ \A a, b \in 1..Len(with) : a # b => with[a] # with[b]
                /\ \A a \in 1..Len(with) :
                       with[a] \in {r.existing_projects[i].id : i \in Matching(r)}
                /\ \A a, b \in 1..Len(with) :
                       a < b => FloatLeq(SimilarityTo(r, ProjectById(r, with[b])),
                                         SimilarityTo(r, ProjectById(r, with[a])))
                /\ \A i \in Matching(r) :
                       r.existing_projects[i].id \notin Range(with)
                       => \A a \in 1..Len(with) :
                              FloatLeq(SimilarityTo(r, r.existing_projects[i]),
                                       SimilarityTo(r, ProjectById(r, with[a])))

\* A Consolidate decision on a task with more than three matches.
C14_Witness ==
    \E k \in 1..Len(ev) :
        /\ ev[k].decision.decision = "consolidate"
        /\ Cardinality(Matching(ev[k])) > 3
        /\ Len(ev[k].decision.consolidate_with) = 3

\* C15: a Clarify decision made by the decision rules carries at least one and
\* at most three clarification questions; the empty description has a clarity
\* score below 0.3 and is decided Clarify with at least one question.
C15_ClarifyQuestions ==
    \A k \in 1..Len(ev) :
        /\ ev[k].decision.decision = "clarify" =>
               /\ Len(ev[k].decision.clarification_questions) >= 1
               /\ Len(ev[k].decision.clarification_questions) <= 3
        /\ ev[k].task_description = "" =>
               /\ FloatLess(ev[k].clarity_s, Hundredths[30])
               /\ ev[k].decision.decision = "clarify"
               /\ Len(ev[k].decision.clarification_questions) >= 1

\* The empty description was evaluated: Clarify, with the three questions on
\* its missing signals.
C15_Witness ==
    \E k \in 1..Len(ev) :
        /\ ev[k].task_description = ""
        /\ ev[k].decision.decision = "clarify"
        /\ Len(ev[k].decision.clarification_questions) = 3

\* The attempts of the request call c is making stay within the limit, and a
\* call whose request failed that many times has ended.
AttemptsBounded(c) ==
    /\ calls[c].attempts <= MAX_ATTEMPTS
    /\ calls[c].attempts = MAX_ATTEMPTS => calls[c].pc = "done"
    /\ (EvaluateDone(c) /\ calls[c].attempts = MAX_ATTEMPTS) =>
           /\ calls[c].raised = None
           /\ calls[c].result.decision = "clarify"
           /\ "error" \in calls[c].result.tags

\* A step in which call c sends a request again does so after a failed
\* attempt and a wait of wait_exponential, which is WAIT_MIN seconds at least.
BackoffBetweenAttempts(c) ==
    (/\ calls[c].pc \in {"fetch_sleep", "embed_sleep", "batch_sleep"}
     /\ calls'[c].pc # calls[c].pc)
    => /\ calls[c].attempts \in 1..(MAX_ATTEMPTS - 1)
       /\ calls'[c].pc \in {"fetch", "embed_attempt", "batch_attempt"}
       /\ now' - calls[c].failed_at >= wait_exponential(calls[c].attempts)
       /\ wait_exponential(calls[c].attempts) >= WAIT_MIN

\* evaluate_task call c has returned a Decision.
ReturnedDecision(c) ==
    /\ EvaluateDone(c)
    /\ calls[c].raised = None
    /\ calls[c].result.decision \in {"add", "filter", "consolidate", "clarify"}

\* C16 as claimed: a request to the embedding provider or to the catalog
\* source is attempted at most MAX_ATTEMPTS times, with a backoff between the
\* attempts; when all attempts failed evaluate_task ends with the
\* Clarify/error decision; every evaluate_task call eventually returns a
\* Decision.
C16_BoundedRetriesAndTermination ==
    /\ [](\A c \in Calls : AttemptsBounded(c))
    /\ [][\A c \in Calls : BackoffBetweenAttempts(c)]_vars
    /\ \A c \in Calls : (calls[c].kind = "evaluate_task") ~> ReturnedDecision(c)

\* The values ReasoningEngine.evaluate reads in call c: the task description,
\* the task embedding and the list object of projects with their embeddings.
Snapshot(c) ==
    [task_description |-> calls[c].text,
     task_embedding |-> calls[c].task_embedding,
     existing_projects |-> lists[calls[c].projects]]

\* The step leaves alone every other call and everything a refresh or another
\* evaluation writes: the catalog, both cache tiers, the list objects.
OnlyScores(c) ==
    /\ \A o \in Calls \ {c} : calls'[o] = calls[o]
    /\ UNCHANGED <<linear_source, projects_col, embeddings_col, agent_state,
                   projects_cache, cache_time, lists, snapshot>>

\* C17: the scoring of one task does not interleave with any other evaluation
\* or cache refresh. A call that has reached the scoring holds the event loop,
\* the next step is its own and ends the call, that step changes no other call,
\* no list object, no cache tier and no catalog, and the decision it makes is
\* the one ReasoningEngine.evaluate computes from the one snapshot of the
\* project list and its embeddings the call holds, in which every project has
\* its embedding.
C17_ScoringFromOneSnapshot ==
    [][\A c \in Calls :
         calls[c].pc = "reason" =>
            /\ running = c
            /\ calls'[c].pc = "done"
            /\ OnlyScores(c)
            /\ \A i \in 1..Len(Snapshot(c).existing_projects) :
                  HasEmbedding(Snapshot(c).existing_projects[i])
            /\ calls'[c].decided =
                  evaluate(Snapshot(c).task_description, Snapshot(c).task_embedding,
                           Snapshot(c).existing_projects)]_vars

\* An evaluate_task call has returned its decision, made from a list object it
\* shares with another evaluate_task call that is suspended in a backoff sleep.
C17_Witness ==
    \E c \in Calls, o \in Calls :
        /\ c # o
        /\ ReturnedDecision(c)
        /\ "error" \notin calls[c].result.tags
        /\ Len(lists[calls[c].projects]) > 0
        /\ calls[o].kind = "evaluate_task"
        /\ calls[o].pc = "embed_sleep"
        /\ calls[o].projects = calls[c].projects

\* The lowercased description contains a keyword (lowercased) of a rule of
\* FILTER_OUT_RULES.
ExcludedCategoryMatch(description) ==
    \E i \in 1..Len(FILTER_OUT_RULES) : \E j \in 1..Len(FILTER_OUT_RULES[i][2]) :
        Contains(Lower(description), Lower(FILTER_OUT_RULES[i][2][j]))

\* The entries of a keyword list that occur in the lowercased description.
Matched(kws, description) == {i \in 1..Len(kws) : Contains(Lower(description), kws[i])}

\* The indicator categories with at least one term in the lowercased description.
IndicatorCategories(description) ==
    {cat \in DOMAIN indicator_terms :
        Matched(indicator_terms[cat], description) # {}}

\* The additive model of the filter score, before clamping: the sum of the
\* claim, its terms added from left to right in the floats of the program.
AdditiveScore(description) ==
    LET inScope == Cardinality(Matched(MAPACHE_KEYWORDS, description))
        excluded == Cardinality(Matched(FILTER_OUT_KEYWORDS, description))
        redFlags == Cardinality(Matched(RED_FLAGS, description))
        categories == Cardinality(IndicatorCategories(description))
        credit == FloatMin(FloatMul(Hundredths[10], FloatOfInt(inScope)), Hundredths[40])
    IN  FloatAdd(
            FloatSub(
                FloatSub(FloatAdd(Hundredths[50], credit),
                         FloatMul(Hundredths[20], FloatOfInt(excluded))),
                FloatMul(Hundredths[15], FloatOfInt(redFlags))),
            FloatMul(Hundredths[5], FloatOfInt(categories)))

\* A float clamped to [0, 1].
ClampedScore(x) == IF x.neg THEN Zero ELSE IF FloatLess(One, x) THEN One ELSE x

\* The float x is within [0, 1].
InUnit(x) == FloatLeq(Zero, x) /\ FloatLeq(x, One)

\* C18: the filter score is 0.1 whenever the description matches an
\* excluded-category rule, whatever in-scope keywords it has, and such a task
\* scores below 0.3 and is decided Filter; otherwise the score is
\* 0.5 + min(0.1 * in-scope matches, 0.4) - 0.2 * excluded keyword matches
\* - 0.15 * red flag matches + 0.05 * indicator categories (one credit for a
\* category, however many of its terms occur), clamped to [0, 1]. The score
\* is always within [0, 1].
C18_FilterScoreFormula ==
    \A k \in 1..Len(ev) :
        LET d == ev[k].task_description
        IN  /\ InUnit(ev[k].filter_s)
            /\ ExcludedCategoryMatch(d) =>
                  /\ ev[k].filter_s = Hundredths[10]
                  /\ FloatLess(ev[k].filter_s, Hundredths[30])
                  /\ ev[k].decision.decision = "filter"
            /\ ~ExcludedCategoryMatch(d) =>
                  ev[k].filter_s = ClampedScore(AdditiveScore(d))

\* A household task that also has in-scope keywords and two terms of one
\* indicator category has been scored 0.1 and decided Filter.
C18_Witness ==
    /\ Len(ev) = 1
    /\ ExcludedCategoryMatch(ev[1].task_description)
    /\ Cardinality(Matched(MAPACHE_KEYWORDS, ev[1].task_description)) >= 3
    /\ Cardinality(Matched(indicator_terms.technical, ev[1].task_description)) >= 2
    /\ ev[1].filter_s = Hundredths[10]
    /\ ev[1].decision.decision = "filter"

\* The description has no excluded marker: no excluded-category rule, no
\* excluded keyword and no red flag matches it.
NoExcludedMarkers(description) ==
    /\ ~ExcludedCategoryMatch(description)
    /\ Matched(FILTER_OUT_KEYWORDS, description) = {}
    /\ Matched(RED_FLAGS, description) = {}

\* C19 as claimed: a description with in-scope keywords present and no
\* excluded markers has a filter score above 0.7.
C19_InScopeWorkScoresHigh ==
    \A k \in 1..Len(ev) :
        LET d == ev[k].task_description
        IN  (Matched(MAPACHE_KEYWORDS, d) # {} /\ NoExcludedMarkers(d)) =>
                FloatLess(Hundredths[70], ev[k].filter_s)

\* C19: "Build Slack MCP server integration for mapache.app" has in-scope
\* keywords and no excluded markers and scores above 0.7, as does every
\* description without excluded markers that has three in-scope keywords or
\* more, or two and a project indicator; one in-scope keyword without a
\* project indicator gives 0.6.
C19_ThreeKeywordsScoreHigh ==
    \A k \in 1..Len(ev) :
        LET d == ev[k].task_description
            inScope == Cardinality(Matched(MAPACHE_KEYWORDS, d))
            categories == Cardinality(IndicatorCategories(d))
        IN  /\ d = "Build Slack MCP server integration for mapache.app" =>
                  /\ inScope > 0
                  /\ NoExcludedMarkers(d)
                  /\ FloatLess(Hundredths[70], ev[k].filter_s)
            /\ (NoExcludedMarkers(d) /\ inScope >= 3) =>
                  FloatLess(Hundredths[70], ev[k].filter_s)
            /\ (NoExcludedMarkers(d) /\ inScope = 2 /\ categories >= 1) =>
                  FloatLess(Hundredths[70], ev[k].filter_s)
            /\ (NoExcludedMarkers(d) /\ inScope = 1 /\ categories = 0) =>
                  ev[k].filter_s = Hundredths[60]

\* "Build Slack MCP server integration for mapache.app" has been scored 0.9.
C19_Witness ==
    /\ Len(ev) = 1
    /\ ev[1].task_description = "Build Slack MCP server integration for mapache.app"
    /\ NoExcludedMarkers(ev[1].task_description)
    /\ Cardinality(Matched(MAPACHE_KEYWORDS, ev[1].task_description)) = 3
    /\ ev[1].filter_s = Hundredths[90]

\* The description is about learning something.
LearningExperiment(description) == Contains(Lower(description), "learn")

\* C20: a task that describes a pure learning experiment, such as "Learn
\* Temporal.io workflow orchestration", has a filter score below 0.4 and is
\* decided Filter.
C20_LearningExperimentFiltered ==
    \A k \in 1..Len(ev) :
        LearningExperiment(ev[k].task_description) =>
            /\ FloatLess(ev[k].filter_s, CONFIDENCE_FILTER)
            /\ ev[k].decision.decision = "filter"

\* The description without its leading and trailing whitespace.
Trimmed(description) ==
    LET first == {i \in 1..Len(description) : ~IsSpace(SubSeq(description, i, i))}
    IN  IF first = {} THEN ""
        ELSE SubSeq(description,
                    CHOOSE i \in first : \A j \in first : i <= j,
                    CHOOSE i \in first : \A j \in first : j <= i)

\* A term of the list occurs in the lowercased trimmed description.
HasTerm(terms, description) == Matched(terms, Trimmed(description)) # {}

\* The additive model of the clarity score, before clamping: the sum of the
\* claim, its terms added from left to right in the floats of the program.
AdditiveClarity(description) ==
    LET length == Len(Trimmed(description))
        ofLength == IF length >= 200 THEN One ELSE FloatOfQuotient(length, 200)
        withVerb == IF HasTerm(clarity_indicators, description)
                    THEN FloatAdd(ofLength, Hundredths[30]) ELSE ofLength
        withHedge == IF HasTerm(vague_indicators, description)
                     THEN FloatSub(withVerb, Hundredths[20]) ELSE withVerb
    IN  IF HasTerm(technical_terms, description)
        THEN FloatAdd(withHedge, Hundredths[10]) ELSE withHedge

\* C21: the clarity score is 0.2 when the trimmed description is shorter than
\* 10 characters, 0.3 when the description is vague, and otherwise
\* min(length / 200, 1.0) + 0.3 for an action verb - 0.2 for a hedging term
\* + 0.1 for a technical noun, clamped to [0, 1]. It is always within [0, 1],
\* a vague description scores below 0.5, and a detailed description (more
\* than 60 characters, no hedging term) with an action verb scores above 0.6.
C21_ClarityScoreFormula ==
    \A k \in 1..Len(ev) :
        LET d == ev[k].task_description
        IN  /\ InUnit(ev[k].clarity_s)
            /\ ev[k].clarity_s =
                  (IF Len(Trimmed(d)) < MIN_DESCRIPTION_LENGTH THEN Hundredths[20]
                   ELSE IF is_empty_or_vague(Trimmed(d)) THEN Hundredths[30]
                   ELSE ClampedScore(AdditiveClarity(d)))
            /\ is_empty_or_vague(d) => FloatLess(ev[k].clarity_s, Hundredths[50])
            /\ (/\ Len(Trimmed(d)) > 60
                /\ HasTerm(clarity_indicators, d)
                /\ ~HasTerm(vague_indicators, d))
               => FloatLess(Hundredths[60], ev[k].clarity_s)

\* The detailed description of 117 characters with the action verb
\* "implement" has been scored 0.585 + 0.3.
C21_Witness ==
    /\ Len(ev) = 1
    /\ Len(Trimmed(ev[1].task_description)) = 117
    /\ HasTerm(clarity_indicators, ev[1].task_description)
    /\ ~HasTerm(technical_terms, ev[1].task_description)
    /\ ev[1].clarity_s = FloatAdd(FloatOfQuotient(117, 200), Hundredths[30])

\* The scores of application k are all within [0, 1].
InUnitRange(k) ==
    InUnit(ev[k].filter_s) /\ InUnit(ev[k].similarity_s) /\ InUnit(ev[k].clarity_s)

\* 0.40 * filterS + 0.30 * similarity + 0.20 * clarityS + 0.10 * 1.0, the
\* terms added from left to right in the floats of the program.
WeightedSumOf(filterS, similarity, clarityS) ==
    FloatAdd(FloatAdd(FloatAdd(FloatMul(Hundredths[40], filterS),
                               FloatMul(Hundredths[30], similarity)),
                      FloatMul(Hundredths[20], clarityS)),
             FloatMul(Hundredths[10], One))

\* WeightedSumOf of the triples given to alignment_score, evaluated once.
WeightedSums ==
    Tabulated([t \in AlignmentTriples |-> WeightedSumOf(t[1], t[2], t[3])])

\* The weighted sum of the scores of application k.
WeightedSum(k) == WeightedSums[<<ev[k].filter_s, ev[k].similarity_s, ev[k].clarity_s>>]

\* The weights are the decimals 0.40, 0.30, 0.20 and 0.10, which sum to 1.0.
WeightsSumToOne ==
    /\ SCORE_WEIGHT_CONTEXT = FloatOfQuotient(40, 100)
    /\ SCORE_WEIGHT_SIMILARITY = FloatOfQuotient(30, 100)
    /\ SCORE_WEIGHT_CLARITY = FloatOfQuotient(20, 100)
    /\ SCORE_WEIGHT_RED_FLAGS = FloatOfQuotient(10, 100)
    /\ 40 + 30 + 20 + 10 = 100

\* C22: the alignment score is 0.40 * filterS + 0.30 * similarity
\* + 0.20 * clarityS + 0.10 * 1.0 clamped to [0, 1], the weights sum to 1.0,
\* the score does not decrease when one input grows and the other two stay,
\* and for inputs in [0, 1] it is in [0, 1].
C22_AlignmentWeightedMonotone ==
    /\ WeightsSumToOne
    /\ \A k \in 1..Len(ev) :
         /\ ev[k].alignment = ClampedScore(WeightedSum(k))
         /\ InUnitRange(k) => InUnit(ev[k].alignment)
    /\ \A j \in 1..Len(ev), k \in 1..Len(ev) :
         (\/ /\ FloatLeq(ev[j].filter_s, ev[k].filter_s)
             /\ ev[j].similarity_s = ev[k].similarity_s
             /\ ev[j].clarity_s = ev[k].clarity_s
          \/ /\ ev[j].filter_s = ev[k].filter_s
             /\ FloatLeq(ev[j].similarity_s, ev[k].similarity_s)
             /\ ev[j].clarity_s = ev[k].clarity_s
          \/ /\ ev[j].filter_s = ev[k].filter_s
             /\ ev[j].similarity_s = ev[k].similarity_s
             /\ FloatLeq(ev[j].clarity_s, ev[k].clarity_s))
         => FloatLeq(ev[j].alignment, ev[k].alignment)

\* Two applications within [0, 1] that differ in the similarity alone, the
\* larger similarity giving the strictly larger score: the second is of the
\* scores (1.0, 1.0, 1.0).
C22_Witness ==
    /\ Len(ev) = 2
    /\ InUnitRange(1) /\ InUnitRange(2)
    /\ ev[1].filter_s = ev[2].filter_s
    /\ ev[1].clarity_s = ev[2].clarity_s
    /\ FloatLess(ev[1].similarity_s, ev[2].similarity_s)
    /\ FloatLess(ev[1].alignment, ev[2].alignment)
    /\ ev[2].filter_s = One /\ ev[2].similarity_s = One /\ ev[2].clarity_s = One

\* Projects given to ReasoningEngine.duplicate_score: with keywords in the name,
\* in the name and the description, in the description alone and in neither.
DuplicateProjects ==
    {SourceProject("p1", "Slack MCP server integration", None),
     SourceProject("p2", "Billing", "Stripe billing service"),
     SourceProject("p3", "QA", None),
     SourceProject("p4", "QA", ""),
     SourceProject("p5", "QA", "Slack MCP server integration")}

\* Similarities given to ReasoningEngine.duplicate_score: 0.0, 0.3, 0.75, 1.0
\* and the similarity of <<1, 0>> to itself, 0.9999999998.
DuplicateSimilarities ==
    {Zero, Hundredths[30], Hundredths[75], One, cosine_similarity(<<1, 0>>, <<1, 0>>)}

\* One application of ReasoningEngine.duplicate_score, recorded in ev.
Duplicate(task_description, existing_project, similarity) ==
    /\ ev = <<>>
    /\ ev' = <<[task_description |-> task_description,
                existing_project |-> existing_project,
                similarity |-> similarity,
                duplicate_s |-> duplicate_score(task_description, existing_project,
                                                similarity)]>>
    /\ UNCHANGED <<now, ticks, faults, source_changes, linear_source, projects_col,
                   embeddings_col, decisions_col, agent_state, projects_cache,
                   cache_time, lists, calls, running, snapshot>>

\* ReasoningEngine.duplicate_score on its own, over bounded inputs.
NextDuplicate ==
    \E d \in EvalDescriptions, p \in DuplicateProjects, s \in DuplicateSimilarities :
        Duplicate(d, p, s)

SpecDuplicate == Init /\ [][NextDuplicate]_vars

\* The keywords of the task description of application k.
TaskKeywords(k) == Range(extract_keywords(ev[k].task_description))

\* The keywords of the name and the description of the project of application k.
ProjectKeywords(k) ==
    Range(extract_keywords(ev[k].existing_project.name))
    \cup (IF ev[k].existing_project.description # None
          THEN Range(extract_keywords(ev[k].existing_project.description))
          ELSE {})

\* The Jaccard overlap of two keyword sets, none for two empty sets.
Jaccard(a, b) ==
    IF a \cup b = {} THEN Zero
    ELSE FloatOfQuotient(Cardinality(a \cap b), Cardinality(a \cup b))

\* The mean of the similarity and the keyword overlap of application k.
MeanOfSimilarityAndOverlap(k) ==
    FloatDiv(FloatAdd(ev[k].similarity, Jaccard(TaskKeywords(k), ProjectKeywords(k))),
             FloatOfInt(2))

\* C23 as stated: the duplicate score is the mean of the cosine similarity and
\* the Jaccard overlap of the keywords of the task description and of the
\* project's name and description for every task and project, an empty
\* keyword set included.
C23_MeanForEveryTaskAndProject ==
    \A k \in 1..Len(ev) : ev[k].duplicate_s = MeanOfSimilarityAndOverlap(k)

\* C23 as amended: the duplicate score is the mean of the cosine similarity and
\* the Jaccard overlap of the keywords when both keyword sets are non-empty
\* and the similarity itself when either is empty; it is within [0, 1]
\* whenever the similarity is.
C23_MeanWhenBothHaveKeywords ==
    \A k \in 1..Len(ev) :
        /\ ev[k].duplicate_s
           = IF TaskKeywords(k) # {} /\ ProjectKeywords(k) # {}
             THEN MeanOfSimilarityAndOverlap(k)
             ELSE ev[k].similarity
        /\ InUnit(ev[k].similarity) => InUnit(ev[k].duplicate_s)

\* A task without keywords scored against a project with keywords: the score
\* is the similarity, not its half.
C23_Witness ==
    /\ Len(ev) = 1
    /\ TaskKeywords(1) = {}
    /\ ProjectKeywords(1) # {}
    /\ ev[1].similarity = Hundredths[75]
    /\ ev[1].duplicate_s = Hundredths[75]

\* The tolerance of `pytest.approx(1.0, abs=0.01)` in
\* test_cosine_similarity_identical.
COSINE_TOLERANCE == Hundredths[1]

\* Vectors given to cosine_similarity: None, empty, zero, and non-zero ones
\* with whole and fractional norms, some at obtuse angles.
CosineVectors ==
    {NoVector, <<>>, <<0, 0>>, <<1, 0>>, <<0, 1>>, <<3, 4>>, <<4, 3>>, <<0 - 3, 4>>,
     <<0 - 1, 0>>, <<5, 12>>, <<2, 3>>, <<25, 24>>}

\* One application of cosine_similarity; two are recorded.
Cosine(unit, vec1, vec2) ==
    /\ Len(ev) < 2
    /\ ev' = Append(ev, [unit |-> unit, vec1 |-> vec1, vec2 |-> vec2,
                         similarity |-> cosine_similarity_in(unit, vec1, vec2)])
    /\ UNCHANGED <<now, ticks, faults, source_changes, linear_source, projects_col,
                   embeddings_col, decisions_col, agent_state, projects_cache,
                   cache_time, lists, calls, running, snapshot>>

\* cosine_similarity on its own, over bounded inputs.
NextCosine ==
    \E unit \in VectorUnits :
        \E vec1, vec2 \in CosineVectors : Cosine(unit, vec1, vec2)

SpecCosine == Init /\ [][NextCosine]_vars

\* Application k was given an empty or undefined vector.
EmptyOperand(k) ==
    \/ ev[k].vec1 = NoVector \/ ev[k].vec2 = NoVector
    \/ Len(ev[k].vec1) = 0 \/ Len(ev[k].vec2) = 0

\* Application k was given the same non-zero vector twice.
SameNonZeroVector(k) ==
    /\ ~EmptyOperand(k)
    /\ ev[k].vec1 = ev[k].vec2
    /\ \E i \in 1..Len(ev[k].vec1) : ev[k].vec1[i] # 0

\* The vectors of application k are at an obtuse angle: their dot product is negative.
NegativeCosine(k) ==
    Dot(ArrayOf("one", ev[k].vec1), ArrayOf("one", ev[k].vec2)).neg

\* C24: cosine_similarity returns 0.0 when either vector is empty or
\* undefined; otherwise the result is within [0, 1], a negative cosine giving
\* 0; it is symmetric in its two arguments; and for any non-zero vector v,
\* cosine_similarity(v, v) is approximately 1.0.
C24_CosineSimilarityContract ==
    /\ \A k \in 1..Len(ev) :
           /\ EmptyOperand(k) => ev[k].similarity = Zero
           /\ ~EmptyOperand(k) =>
                 /\ InUnit(ev[k].similarity)
                 /\ NegativeCosine(k) => ev[k].similarity = Zero
           /\ SameNonZeroVector(k) =>
                 FloatLeq(FloatSub(One, ev[k].similarity), COSINE_TOLERANCE)
    /\ \A k1, k2 \in 1..Len(ev) :
           /\ ev[k1].unit = ev[k2].unit
           /\ ev[k1].vec1 = ev[k2].vec2
           /\ ev[k1].vec2 = ev[k2].vec1
           => ev[k1].similarity = ev[k2].similarity

\* Ids of the projects of the catalogs given to _find_similar_projects, in
\* catalog order.
MatchIds == <<"p1", "p2", "p3", "p4", "p5", "p6", "p7">>

\* Embeddings of those projects: none, and three in two directions, two of
\* them in the same direction with different lengths.
MatchEmbeddings == {NoVector, <<1, 0>>, <<4, 3>>, <<8, 6>>}

\* Task embeddings given to _find_similar_projects: none, zero and two
\* directions.
MatchQueries == {NoVector, zeros, <<4, 3>>, <<3, 4>>}

\* The catalog whose i-th project has embedding embeddings[i].
CatalogWith(embeddings) ==
    [i \in 1..Len(embeddings) |->
        [SourceProject(MatchIds[i], "Billing", None) EXCEPT !.embedding = embeddings[i]]]

\* One application of ReasoningEngine._find_similar_projects, recorded in ev.
FindSimilar(task_embedding, projects) ==
    /\ ev = <<>>
    /\ ev' = <<[task_embedding |-> task_embedding,
                projects |-> projects,
                matches |-> find_similar_projects(task_embedding, projects)]>>
    /\ UNCHANGED <<now, ticks, faults, source_changes, linear_source, projects_col,
                   embeddings_col, decisions_col, agent_state, projects_cache,
                   cache_time, lists, calls, running, snapshot>>

\* ReasoningEngine._find_similar_projects on its own, over bounded inputs.
NextMatches ==
    /\ ev = <<>>
    /\ \E n \in 0..Len(MatchIds) :
           \E embeddings \in [1..n -> MatchEmbeddings], q \in MatchQueries :
               FindSimilar(q, CatalogWith(embeddings))

SpecMatches == Init /\ [][NextMatches]_vars

\* The score of the i-th project of the catalog of application k.
ScoreOf(k, i) == cosine_similarity(ev[k].task_embedding, ev[k].projects[i].embedding)

\* Positions of the projects of application k that have an embedding and
\* score at least the match threshold.
Candidates(k) ==
    {i \in 1..Len(ev[k].projects) :
        /\ HasEmbedding(ev[k].projects[i])
        /\ FloatLeq(SIMILARITY_THRESHOLD_MATCH, ScoreOf(k, i))}

\* The catalog position of the project of the j-th match of application k.
PositionOf(k, j) ==
    CHOOSE i \in 1..Len(ev[k].projects) : ev[k].projects[i].id = ev[k].matches[j].project.id

\* Catalog position i ranks before position j in application k: the higher
\* score, or the same score and earlier in the catalog.
RanksBefore(k, i, j) ==
    \/ FloatLess(ScoreOf(k, j), ScoreOf(k, i))
    \/ ScoreOf(k, i) = ScoreOf(k, j) /\ i < j

\* C25: the matches are the at most 5 projects with the highest similarity
\* among the projects that have an embedding and score at least 0.75, in
\* descending order of score with ties in catalog order; each match carries
\* the project whose own embedding gave its score, also when projects of the
\* catalog lack an embedding; there is no match when the query or the
\* candidate set is empty.
C25_TopMatchesPairedWithTheirProject ==
    \A k \in 1..Len(ev) :
        LET matches == ev[k].matches
            positions == {PositionOf(k, j) : j \in 1..Len(matches)}
        IN  /\ Len(matches) = Min(TOP_MATCHES, Cardinality(Candidates(k)))
            /\ positions \subseteq Candidates(k)
            /\ Cardinality(positions) = Len(matches)
            /\ \A j \in 1..Len(matches) :
                   /\ matches[j].project = ev[k].projects[PositionOf(k, j)]
                   /\ matches[j].similarity_score = ScoreOf(k, PositionOf(k, j))
            /\ \A i, j \in 1..Len(matches) :
                   i < j => RanksBefore(k, PositionOf(k, i), PositionOf(k, j))
            /\ \A i \in Candidates(k) \ positions :
                   \A j \in positions : RanksBefore(k, j, i)
            /\ (ev[k].task_embedding = NoVector \/ Len(ev[k].projects) = 0) => matches = <<>>

\* Seven projects of which the first has no embedding and the six others are
\* candidates with two different scores: five matches, the better ones first
\* although later in the catalog, the last candidate left out.
C25_Witness ==
    /\ Len(ev) = 1
    /\ Len(ev[1].projects) = 7
    /\ ev[1].projects[1].embedding = NoVector
    /\ Cardinality(Candidates(1)) = 6
    /\ Len(ev[1].matches) = 5
    /\ FloatLess(ScoreOf(1, 2), ScoreOf(1, 4))
    /\ ev[1].matches[1].project.id = "p4"
    /\ FloatLess(ev[1].matches[5].similarity_score, ev[1].matches[1].similarity_score)
    /\ \A j \in 1..5 : ev[1].matches[j].project.id # "p7"

\* GET /health: LinearSemanticAgent.get_agent_health, which runs without
\* yielding.  ev keeps the call: the agent, the time, the in-process entry as
\* it was, and the report returned, none when get_agent_state raised (rf).
GetAgentHealth(a, rf) ==
    /\ running = NoRef
    /\ rf => CanFault
    /\ faults' = IF rf THEN faults + 1 ELSE faults
    /\ ev' = <<[agent |-> a,
                at |-> now,
                present |-> projects_cache[a] # NoRef,
                cache_time |-> cache_time[a],
                health |-> IF rf THEN <<>>
                           ELSE <<[status |-> IF agent_state.health_status = None
                                              THEN "unknown"
                                              ELSE agent_state.health_status,
                                   version |-> agent_version,
                                   last_init |-> agent_state.last_init,
                                   last_sync |-> agent_state.last_sync,
                                   projects_count |-> agent_state.projects_count,
                                   cache_valid |-> /\ projects_cache[a] # NoRef
                                                   /\ cache_time[a] # NoTime]>>]>>
    /\ UNCHANGED <<now, ticks, source_changes, linear_source, projects_col,
                   embeddings_col, decisions_col, agent_state, projects_cache,
                   cache_time, lists, calls, running, snapshot>>

\* The project cache and the health endpoint.
NextHealth ==
    \/ \E c \in Calls, a \in Agents, force \in BOOLEAN : StartRefresh(c, a, force)
    \/ ProjectSteps
    \/ \E d \in ProjectTickSteps : Tick(d)
    \/ \E catalog \in Catalogs : SourceChange(catalog)
    \/ \E a \in Agents, rf \in BOOLEAN : GetAgentHealth(a, rf)

SpecHealth == Init /\ [][NextHealth]_vars

\* The in-process entry was valid when health call k read it: present, with
\* an age below the project TTL.
EntryValidAtCall(k) ==
    /\ ev[k].present
    /\ ev[k].cache_time # NoTime
    /\ ev[k].at - ev[k].cache_time < CACHE_TTL_PROJECTS

\* C26: after any sequence of refreshes, cache loads and elapsed time,
\* get_agent_health reports cache_valid = true exactly when the in-process
\* catalog entry is present with an age below the project TTL, and false once
\* the entry has expired.
C26_HealthReportsCacheValidity ==
    \A k \in 1..Len(ev) :
        Len(ev[k].health) > 0 => (ev[k].health[1].cache_valid <=> EntryValidAtCall(k))

\* evaluate_task call c has returned the decision the rules made, not the
\* error decision of the except branch.
ReturnedRuleDecision(c) ==
    /\ ReturnedDecision(c)
    /\ "error" \notin calls[c].result.tags

\* Record i of the decisions store carries what call c returned.
RecordOf(i, c) ==
    /\ decisions_col[i].task_description = calls[c].text
    /\ decisions_col[i].decision = calls[c].result.decision
    /\ decisions_col[i].confidence = calls[c].result.confidence

\* A step that changes the decisions store is the last step of an
\* evaluate_task call that has just made its decision: it appends one record,
\* with the type and the confidence of the decision the call returns.
AppendsTheDecisionMade ==
    decisions_col' # decisions_col =>
        \E c \in Calls :
            /\ calls[c].kind = "evaluate_task"
            /\ calls[c].pc = "reason"
            /\ calls'[c].pc = "done"
            /\ "error" \notin calls'[c].result.tags
            /\ Len(decisions_col') = Len(decisions_col) + 1
            /\ SubSeq(decisions_col', 1, Len(decisions_col)) = decisions_col
            /\ decisions_col'[Len(decisions_col')].task_description = calls[c].text
            /\ decisions_col'[Len(decisions_col')].decision = calls'[c].result.decision
            /\ decisions_col'[Len(decisions_col')].confidence = calls'[c].result.confidence
            /\ \A o \in Calls \ {c} : calls'[o] = calls[o]

\* C27: each evaluate_task call appends at most one record to the decisions
\* store; it appends exactly one, with the decision type and the confidence of
\* the Decision it returns, when that Decision was made by the decision rules;
\* the record is written once the Decision has been computed.
C27_OneRecordPerRuleDecision ==
    /\ [](/\ Len(decisions_col) = Cardinality({c \in Calls : ReturnedRuleDecision(c)})
          /\ \A c \in Calls :
                 ReturnedRuleDecision(c) => \E i \in 1..Len(decisions_col) : RecordOf(i, c))
    /\ [][AppendsTheDecisionMade]_vars

\* Two evaluate_task calls have returned, one the decision of the rules and
\* one the error decision after its store_decision failed: the store holds
\* the one record of the former.
C27_Witness ==
    \E c \in Calls, o \in Calls :
        /\ ReturnedRuleDecision(c)
        /\ ReturnedDecision(o)
        /\ "error" \in calls[o].result.tags
        /\ calls[o].write_faults > 0
        /\ Len(decisions_col) = 1
        /\ RecordOf(1, c)

\* The highest alignment score without a match: the weights of the filter
\* score, of the clarity score and of the red flags, the similarity counting 0.
ALIGNMENT_WITHOUT_MATCH ==
    FloatAdd(FloatAdd(SCORE_WEIGHT_CONTEXT, SCORE_WEIGHT_CLARITY), SCORE_WEIGHT_RED_FLAGS)

\* C28: an Add decision is produced only when at least one project matches the
\* task with similarity >= 0.75, since without a match the alignment score is
\* at most 0.40 + 0.20 + 0.10, below the 0.75 threshold; every Add decision has
\* mapped_project set to the id of the top match and a confidence of at least
\* 0.85.
C28_AddOnlyWithMatch ==
    \A k \in 1..Len(ev) :
        /\ Len(ev[k].matches) = 0 =>
              /\ FloatLeq(ev[k].alignment, ALIGNMENT_WITHOUT_MATCH)
              /\ FloatLess(ALIGNMENT_WITHOUT_MATCH, ALIGNMENT_SCORE_THRESHOLD)
              /\ ev[k].decision.decision # "add"
        /\ ev[k].decision.decision = "add" =>
              /\ Len(ev[k].matches) > 0
              /\ FloatLeq(SIMILARITY_THRESHOLD_MATCH, ev[k].matches[1].similarity_score)
              /\ \A j \in 1..Len(ev[k].matches) :
                     FloatLeq(ev[k].matches[j].similarity_score,
                              ev[k].matches[1].similarity_score)
              /\ ev[k].decision.mapped_project = ev[k].matches[1].project.id
              /\ FloatLeq(Hundredths[85], ev[k].decision.confidence)

\* An Add decision mapped to the second project of the catalog, the better of
\* two matches, with a confidence between 0.85 and 1.
C28_Witness ==
    /\ Len(ev) = 1
    /\ ev[1].decision.decision = "add"
    /\ Len(ev[1].matches) = 2
    /\ FloatLess(ev[1].matches[2].similarity_score, ev[1].matches[1].similarity_score)
    /\ ev[1].decision.mapped_project = "p2"
    /\ FloatLeq(Hundredths[85], ev[1].decision.confidence)
    /\ FloatLess(ev[1].decision.confidence, One)

\* In this step the non-forced get_or_refresh_projects of call c returns the
\* in-process entry or the documents of the persistent tier.
ServedFromCache(c) ==
    /\ calls[c].pc = "get_projects"
    /\ ~calls[c].force
    /\ calls'[c].pc # "get_projects"
    /\ calls'[c].mem_hit \/ calls'[c].store_hit

\* C29: every catalog returned from a cache tier by a non-forced
\* get_or_refresh_projects call was fetched from the catalog source less than
\* the project TTL before the call; reloading the persistent tier into the
\* in-process entry and writing projects back with their embeddings do not
\* extend the time for which the data of one fetch is served.
C29_ServedWithinTTLOfFetch ==
    [][\A c \in Calls :
          ServedFromCache(c) =>
              \A i \in 1..Len(lists'[calls'[c].projects]) :
                  now - lists'[calls'[c].projects][i].fetched_at < CACHE_TTL_PROJECTS]_vars

\* The catalog of two projects as list_projects returned it at time 0.
EarlierCatalog ==
    <<[SourceProject("p1", "Slack MCP server integration", None) EXCEPT !.fetched_at = 0],
      [SourceProject("p2", "Billing", "Stripe billing service") EXCEPT !.fetched_at = 0]>>

\* A new agent instance in front of a persistent tier that an earlier instance
\* filled at time 0 from the catalog of two projects, which the source still
\* holds.
InitSnapshot ==
    /\ now = 0
    /\ ticks = 0
    /\ faults = 0
    /\ source_changes = 0
    /\ linear_source = <<SourceProject("p1", "Slack MCP server integration", None),
                         SourceProject("p2", "Billing", "Stripe billing service")>>
    /\ projects_col = cache_projects(EmptyMap, EarlierCatalog, 0)
    /\ embeddings_col = EmptyMap
    /\ decisions_col = <<>>
    /\ agent_state = [projects_count |-> Len(EarlierCatalog), last_sync |-> 0, last_updated |-> 0,
                       last_init |-> NoTime, health_status |-> None, version |-> None]
    /\ projects_cache = [a \in Agents |-> NoRef]
    /\ cache_time = [a \in Agents |-> NoTime]
    /\ lists = [c \in Calls |-> <<>>]
    /\ calls = [c \in Calls |-> IdleCall]
    /\ running = NoRef
    /\ ev = <<>>
    /\ snapshot = {EarlierCatalog[i].id : i \in 1..Len(EarlierCatalog)}

\* LinearSemanticAgent.__init__ and the beginning of initialize (main.py
\* 31-32): the instance is replaced by a new one, whose in-process entry is
\* empty, while no coroutine of the old one is pending.  initialize reads the
\* agent state (line 57; rf: the read fails and the exception leaves
\* initialize) and calls get_or_refresh_projects(force=False).
NewInstance(c, a, rf) ==
    /\ running = NoRef
    /\ NextToStart(c)
    /\ \A k \in Calls : calls[k].pc \in {"idle", "done"}
    /\ rf => CanFault
    /\ faults' = IF rf THEN faults + 1 ELSE faults
    /\ projects_cache' = [projects_cache EXCEPT ![a] = NoRef]
    /\ cache_time' = [cache_time EXCEPT ![a] = NoTime]
    /\ calls' = [calls EXCEPT ![c] = Merge(Merge(@,
           [kind |-> "initialize", agent |-> a, force |-> FALSE]),
           IF rf
           THEN RaiseUpdate([kind |-> "initialize"], "firestore read failed")
                @@ [read_faults |-> 1]
           ELSE [pc |-> "get_projects"])]
    /\ running' = IF rf THEN NoRef ELSE c
    /\ UNCHANGED <<now, ticks, source_changes, linear_source, projects_col,
                   embeddings_col, decisions_col, agent_state, lists, ev, snapshot>>

\* The project cache across agent instances.
NextSnapshot ==
    \/ \E c \in Calls, a \in Agents, force \in BOOLEAN : StartRefresh(c, a, force)
    \/ ProjectSteps
    \/ \E c \in Calls, wf \in BOOLEAN, d \in RequestDelays(2) : InitializeUpdate(c, wf, d)
    \/ \E d \in ProjectTickSteps : Tick(d)
    \/ \E catalog \in Catalogs : SourceChange(catalog)
    \/ \E c \in Calls, a \in Agents, rf \in BOOLEAN : NewInstance(c, a, rf)

SpecSnapshot == InitSnapshot /\ [][NextSnapshot]_vars

\* In this step get_or_refresh_projects of call c returns the documents of
\* the persistent tier.
LoadedFromStore(c) ==
    /\ calls[c].pc = "get_projects"
    /\ calls'[c].store_hit

\* C30: a catalog that get_or_refresh_projects loads from the persistent tier
\* has the project ids of the most recent snapshot fetched from the source and
\* written to that tier, none more and none less, whatever refreshes, forced
\* refreshes and write-backs came before.
C30_StoreLoadIsLastSnapshot ==
    [][\A c \in Calls :
          LoadedFromStore(c) =>
              {lists'[calls'[c].projects][i].id :
                  i \in 1..Len(lists'[calls'[c].projects])} = snapshot]_vars

====
